---- MODULE Spec2Model ----
(***************************************************************************)
(* Model of the gpx_activities plugin (src/plugins/gpx_activities) of the  *)
(* InkyPi photo frame: its pure helpers and one run of generate_image.     *)
(*                                                                         *)
(* Representation of Python values                                         *)
(*   - a str is a sequence of one-character strings, so ord(), strip(),    *)
(*     float() and f-string formatting are computed character by character;*)
(*   - a float is an integer count of a fixed-point unit: 1e-6 degree for  *)
(*     coordinates, 1e-3 for metres and kilometres;                        *)
(*   - a JSON / settings value is a tagged record (PyNone, PyNum, PyStr);  *)
(*   - the outcome of a call is a record [err, val]: err = NoError and the *)
(*     returned value, or the message / type of the exception raised.      *)
(***************************************************************************)
EXTENDS Integers, Sequences, FiniteSets, TLC

\* ------------------------------------------------------------------ bounds
\* longest str handed to _parse_min_distance by the call harness
MaxLen == 3
\* longest duration (seconds) handed to _format_duration by the call harness
MaxDuration == 3700
\* most points of a polyline that the call harness encodes and decodes
MaxPts == 2
\* most trkpt elements of a GPX document handed to
\* extract_points_from_gpx_bytes by the call harness
MaxTrkpt == 3
\* longest raw string handed to decode_polyline by the call harness
MaxPolyLen == 4

\* ------------------------------------------------------- Python value model
NoError == "ok"
Ok(v) == [err |-> NoError, val |-> v]
Raise(e) == [err |-> e, val |-> <<>>]

PyNone == [t |-> "none", n |-> 0, s |-> <<>>]
PyNum(n) == [t |-> "num", n |-> n, s |-> <<>>]
PyStr(s) == [t |-> "str", n |-> 0, s |-> s]
\* a str holding a valid ISO-8601 timestamp, abstracted to the instant n it denotes
PyIso(n) == [t |-> "iso", n |-> n, s |-> <<>>]
\* a non-empty list or dict where a scalar is expected
PyObj == [t |-> "obj", n |-> 0, s |-> <<>>]
\* bool(value): None, 0 and "" are falsy
Truthy(v) == CASE v.t = "none" -> FALSE
               [] v.t = "num" -> v.n # 0
               [] v.t = "str" -> v.s # <<>>
               [] OTHER -> TRUE
\* a or b
PyOr(a, b) == IF Truthy(a) THEN a ELSE b

RECURSIVE Pow10(_)
Pow10(k) == IF k = 0 THEN 1 ELSE 10 * Pow10(k - 1)

DigitChars == <<"0", "1", "2", "3", "4", "5", "6", "7", "8", "9">>
IsDigit(c) == \E i \in 1..10 : DigitChars[i] = c
DigitVal(c) == (CHOOSE i \in 1..10 : DigitChars[i] = c) - 1

\* str(n) for an int
RECURSIVE NatStr(_)
NatStr(n) == IF n < 10 THEN <<DigitChars[n + 1]>>
             ELSE NatStr(n \div 10) \o <<DigitChars[(n % 10) + 1]>>
IntStr(n) == IF n < 0 THEN <<"-">> \o NatStr(-n) ELSE NatStr(n)
\* the format spec {n:02d}
Pad2(n) == IF 0 <= n /\ n < 10 THEN <<"0">> \o NatStr(n) ELSE IntStr(n)

\* str.strip() on the blank character
RECURSIVE LStrip(_)
LStrip(s) == IF s # <<>> /\ Head(s) = " " THEN LStrip(Tail(s)) ELSE s
RECURSIVE RStrip(_)
RStrip(s) == IF s # <<>> /\ s[Len(s)] = " " THEN RStrip(SubSeq(s, 1, Len(s) - 1)) ELSE s
Strip(s) == RStrip(LStrip(s))

RECURSIVE DigitsVal(_)
DigitsVal(s) == IF s = <<>> THEN 0 ELSE DigitsVal(SubSeq(s, 1, Len(s) - 1)) * 10 + DigitVal(s[Len(s)])
AllDigits(s) == \A i \in 1..Len(s) : IsDigit(s[i])
\* the first `places` decimals of a fraction's digit string, as an integer
FracVal(s, places) ==
    IF Len(s) >= places THEN DigitsVal(SubSeq(s, 1, places))
    ELSE DigitsVal(s) * Pow10(places - Len(s))

\* float(str): blanks stripped, an optional sign, digits with an optional
\* point and at least one digit; anything else is a ValueError.  The value is
\* returned in units of 10^-places.
ParseFloat(str, places) ==
    LET t == Strip(str)
        neg == t # <<>> /\ Head(t) = "-"
        u == IF t # <<>> /\ Head(t) \in {"-", "+"} THEN Tail(t) ELSE t
        dots == {i \in 1..Len(u) : u[i] = "."}
        p == IF dots = {} THEN Len(u) + 1 ELSE CHOOSE i \in dots : \A j \in dots : i <= j
        ip == SubSeq(u, 1, p - 1)
        fp == SubSeq(u, p + 1, Len(u))
        good == AllDigits(ip) /\ AllDigits(fp) /\ Len(ip) + Len(fp) > 0
        mag == DigitsVal(ip) * Pow10(places) + FracVal(fp, places)
    IN IF good THEN Ok(IF neg THEN -mag ELSE mag) ELSE Raise("ValueError")

\* float(value) of a JSON / settings value
PyFloat(v, places) ==
    CASE v.t = "num" -> Ok(v.n)
      [] v.t = "str" -> ParseFloat(v.s, places)
      [] v.t = "iso" -> Raise("ValueError")
      [] OTHER -> Raise("TypeError")

\* ------------------------------------------------------------ is_in_brussels
\* the Brussels bounding box, in 1e-6 degree
BRUSSELS_MIN_LAT == 50796000
BRUSSELS_MAX_LAT == 50914000
BRUSSELS_MIN_LON == 4244000
BRUSSELS_MAX_LON == 4486000

\* an optional float: <<>> is None, <<v>> is the value v
None == <<>>
Some(v) == <<v>>

is_in_brussels_strict(lat, lon) ==
    IF lat = None \/ lon = None THEN FALSE
    ELSE /\ BRUSSELS_MIN_LAT < lat[1] /\ lat[1] < BRUSSELS_MAX_LAT
         /\ BRUSSELS_MIN_LON < lon[1] /\ lon[1] < BRUSSELS_MAX_LON

is_in_brussels(lat, lon) ==
    IF lat = None \/ lon = None THEN FALSE
    ELSE /\ BRUSSELS_MIN_LAT <= lat[1] /\ lat[1] <= BRUSSELS_MAX_LAT
         /\ BRUSSELS_MIN_LON <= lon[1] /\ lon[1] <= BRUSSELS_MAX_LON

\* ------------------------------------------------------- _parse_min_distance
MsgInvalidDistance == "Minimum distance must be a valid number in kilometers."
MsgNegativeDistance == "Minimum distance cannot be negative."
\* the default threshold 20.0 km, in 1e-3 km
DefaultMinDistance == 20000

_parse_min_distance_nonpositive(value) ==
    IF value.t = "none" \/ (value.t = "str" /\ value.s = <<>>) THEN Ok(DefaultMinDistance)
    ELSE LET distance == PyFloat(value, 3)
         IN IF distance.err # NoError THEN Raise(MsgInvalidDistance)
            ELSE IF distance.val <= 0 THEN Raise(MsgNegativeDistance)
            ELSE Ok(distance.val)

_parse_min_distance(value) ==
    IF value.t = "none" \/ (value.t = "str" /\ value.s = <<>>) THEN Ok(DefaultMinDistance)
    ELSE LET distance == PyFloat(value, 3)
         IN IF distance.err # NoError THEN Raise(MsgInvalidDistance)
            ELSE IF distance.val < 0 THEN Raise(MsgNegativeDistance)
            ELSE Ok(distance.val)

\* ---------------------------------------------------------- _format_duration
\* duration_seconds is None (<<>>) or an int (<<n>>); the result is a str
_format_duration(duration_seconds) ==
    IF duration_seconds = None THEN
        <<"U","n","k","n","o","w","n"," ","d","u","r","a","t","i","o","n">>
    ELSE LET d == duration_seconds[1]
             hours == d \div 3600
             remainder == d % 3600
             minutes == remainder \div 60
             seconds == remainder % 60
         IN IF d < 60 THEN IntStr(d) \o <<"s">>
            ELSE IF hours > 0 THEN
                IF seconds > 0
                THEN IntStr(hours) \o <<"h", " ">> \o Pad2(minutes) \o <<"m", " ">> \o Pad2(seconds) \o <<"s">>
                ELSE IntStr(hours) \o <<"h", " ">> \o Pad2(minutes) \o <<"m">>
            ELSE IF seconds > 0
                THEN IntStr(minutes) \o <<"m", " ">> \o Pad2(seconds) \o <<"s">>
                ELSE IntStr(minutes) \o <<"m">>

\* ----------------------------------------------------------- decode_polyline
\* the printable ASCII characters, code 32 (blank) first; "grave" stands for
\* the character of code 96, which a TLA+ string cannot hold
AsciiTable == <<
    " ", "!", "\"", "#", "$", "%", "&", "'", "(", ")", "*", "+", ",", "-", ".", "/",
    "0", "1", "2", "3", "4", "5", "6", "7", "8", "9", ":", ";", "<", "=", ">", "?",
    "@", "A", "B", "C", "D", "E", "F", "G", "H", "I", "J", "K", "L", "M", "N", "O",
    "P", "Q", "R", "S", "T", "U", "V", "W", "X", "Y", "Z", "[", "\\", "]", "^", "_",
    "grave", "a", "b", "c", "d", "e", "f", "g", "h", "i", "j", "k", "l", "m", "n", "o",
    "p", "q", "r", "s", "t", "u", "v", "w", "x", "y", "z", "{", "|", "}", "~"
>>
\* ord(c)
Ord(c) == (CHOOSE i \in 1..Len(AsciiTable) : AsciiTable[i] = c) + 31

RECURSIVE Pow2(_)
Pow2(k) == IF k = 0 THEN 1 ELSE 2 * Pow2(k - 1)

\* the inner loop with a read past the end taken as the end of the number
RECURSIVE ReadVarintPastEnd(_, _, _, _)
ReadVarintPastEnd(encoded, index, shift, result) ==
    IF index > Len(encoded) THEN [err |-> NoError, result |-> result, index |-> index]
    ELSE LET b == Ord(encoded[index]) - 63
             r == result + (b % 32) * Pow2(shift)
         IN IF b < 32 THEN [err |-> NoError, result |-> r, index |-> index + 1]
            ELSE ReadVarintPastEnd(encoded, index + 1, shift + 5, r)

\* one inner `while True` loop of decode_polyline: reads 5-bit groups from the
\* 1-based position index until a group without the continuation bit 0x20.
\* encoded[index] past the end raises IndexError.  The groups never overlap,
\* so `result |= (b & 0x1F) << shift` is an addition.
RECURSIVE ReadVarint(_, _, _, _)
ReadVarint(encoded, index, shift, result) ==
    IF index > Len(encoded) THEN [err |-> "IndexError", result |-> 0, index |-> index]
    ELSE LET b == Ord(encoded[index]) - 63
             r == result + (b % 32) * Pow2(shift)
         IN IF b < 32 THEN [err |-> NoError, result |-> r, index |-> index + 1]
            ELSE ReadVarint(encoded, index + 1, shift + 5, r)

\* ~(result >> 1) if (result & 1) else (result >> 1)
ZigZagDecode(result) == IF result % 2 = 1 THEN -(result \div 2) - 1 ELSE result \div 2

\* the outer loop, from the state (index, lat, lon, points); lat and lon are
\* ints in 1e-5 degree and lat / 1e5 is stored in 1e-6 degree
RECURSIVE DecodeLoop(_, _, _, _, _)
DecodeLoop(encoded, index, lat, lon, points) ==
    IF ~(index <= Len(encoded)) THEN Ok(points)
    ELSE LET a == ReadVarint(encoded, index, 0, 0)
         IN IF a.err # NoError THEN Raise(a.err)
            ELSE LET lat2 == lat + ZigZagDecode(a.result)
                     o == ReadVarint(encoded, a.index, 0, 0)
                 IN IF o.err # NoError THEN Raise(o.err)
                    ELSE LET lon2 == lon + ZigZagDecode(o.result)
                         IN DecodeLoop(encoded, o.index, lat2, lon2,
                                       Append(points, <<lat2 * 10, lon2 * 10>>))

\* the outer loop with the deltas not accumulated
RECURSIVE DecodeLoopNoAccumulate(_, _, _, _, _)
DecodeLoopNoAccumulate(encoded, index, lat, lon, points) ==
    IF ~(index <= Len(encoded)) THEN Ok(points)
    ELSE LET a == ReadVarint(encoded, index, 0, 0)
         IN IF a.err # NoError THEN Raise(a.err)
            ELSE LET lat2 == ZigZagDecode(a.result)
                     o == ReadVarint(encoded, a.index, 0, 0)
                 IN IF o.err # NoError THEN Raise(o.err)
                    ELSE LET lon2 == ZigZagDecode(o.result)
                         IN DecodeLoopNoAccumulate(encoded, o.index, lat2, lon2,
                                       Append(points, <<lat2 * 10, lon2 * 10>>))

decode_polyline_no_accumulate(encoded) ==
    IF encoded = <<>> THEN Ok(<<>>) ELSE DecodeLoopNoAccumulate(encoded, 1, 0, 0, <<>>)

decode_polyline(encoded) ==
    IF encoded = <<>> THEN Ok(<<>>) ELSE DecodeLoop(encoded, 1, 0, 0, <<>>)

\* the string of test_decode_polyline_basic
KnownPolyline == <<"_", "p", "~", "i", "F", "~", "p", "s", "|", "U", "_", "u", "l", "L", "n", "n", "q", "C", "_", "m", "q", "N", "v", "x", "q", "grave", "@">>

\* -------------------------------------------------------------- str helpers
\* str.lower()
LowerChar(c) == IF Ord(c) >= 65 /\ Ord(c) <= 90 THEN AsciiTable[Ord(c) + 32 - 31] ELSE c
Lower(s) == [i \in 1..Len(s) |-> LowerChar(s[i])]
\* pat in text
Contains(text, pat) ==
    \E i \in 1..(Len(text) - Len(pat) + 1) : SubSeq(text, i, i + Len(pat) - 1) = pat
\* str(value)
StrOf(v) == CASE v.t = "none" -> <<"N", "o", "n", "e">>
              [] v.t = "num" -> IntStr(v.n)
              [] v.t = "str" -> v.s
              [] v.t = "iso" -> <<"<", "i", "s", "o", ">">>
              [] OTHER -> <<"{", "}">>

\* -------------------------------------------------------- parse_iso_datetime
\* None for a falsy value and for a str that datetime.fromisoformat rejects,
\* else the instant the str denotes
parse_iso_datetime(value) ==
    IF ~Truthy(value) THEN None
    ELSE IF value.t = "iso" THEN Some(value.n) ELSE None

\* -------------------------------------------------- extract_start_coordinates
\* the candidate (lat, lon) pairs of an activity, in priority order
StartCandidates(activity) ==
    LET summary == IF activity.summaryDTO # None THEN activity.summaryDTO[1]
                   ELSE [startLatitude |-> PyNone, startLongitude |-> PyNone]
    IN << <<activity.startLatitude, activity.startLongitude>>,
          <<activity.beginLatitude, activity.beginLongitude>>,
          <<activity.startLatitudeDegrees, activity.startLongitudeDegrees>>,
          <<summary.startLatitude, summary.startLongitude>> >>

\* the latitude of the first candidate with a usable latitude and the
\* longitude of the first candidate with a usable longitude
RECURSIVE FirstValidEach(_, _)
FirstValidEach(candidates, which) ==
    IF candidates = <<>> THEN None
    ELSE LET v == Head(candidates)[which]
         IN IF v.t # "none" /\ PyFloat(v, 6).err = NoError THEN Some(PyFloat(v, 6).val)
            ELSE FirstValidEach(Tail(candidates), which)
FirstValidPairEachAlone(candidates) ==
    LET lat == FirstValidEach(candidates, 1)
        lon == FirstValidEach(candidates, 2)
    IN IF lat = None \/ lon = None THEN <<None, None>> ELSE <<lat, lon>>

RECURSIVE FirstValidPair(_)
FirstValidPair(candidates) ==
    IF candidates = <<>> THEN <<None, None>>
    ELSE LET lat == Head(candidates)[1]
             lon == Head(candidates)[2]
         IN IF lat.t = "none" \/ lon.t = "none" THEN FirstValidPair(Tail(candidates))
            ELSE LET a == PyFloat(lat, 6)
                     o == PyFloat(lon, 6)
                 IN IF a.err = NoError /\ o.err = NoError THEN <<Some(a.val), Some(o.val)>>
                    ELSE FirstValidPair(Tail(candidates))

extract_start_coordinates(activity) == FirstValidPair(StartCandidates(activity))

\* ---------------------------------------------- extract_points_from_gpx_bytes
\* A GPX byte buffer: empty, or not well-formed XML, or a document with its
\* trkpt elements of the GPX 1.1 namespace (ns), its non-namespaced ones
\* (plain) and those of any other namespace, such as GPX 1.0 (other), each
\* list in document order, each element a record of the optional attribute
\* strings lat and lon.
\* the loop over trkpts that gives up at the first point it cannot use
RECURSIVE TrkptPointsUntilMalformed(_)
TrkptPointsUntilMalformed(trkpts) ==
    IF trkpts = <<>> THEN <<>>
    ELSE LET trkpt == Head(trkpts)
         IN IF trkpt.lat = None \/ trkpt.lon = None THEN <<>>
            ELSE LET a == ParseFloat(trkpt.lat[1], 6)
                     o == ParseFloat(trkpt.lon[1], 6)
                 IN IF a.err = NoError /\ o.err = NoError
                    THEN << <<a.val, o.val>> >> \o TrkptPointsUntilMalformed(Tail(trkpts))
                    ELSE <<>>

RECURSIVE TrkptPoints(_)
TrkptPoints(trkpts) ==
    IF trkpts = <<>> THEN <<>>
    ELSE LET trkpt == Head(trkpts)
             rest == TrkptPoints(Tail(trkpts))
         IN IF trkpt.lat = None \/ trkpt.lon = None THEN rest
            ELSE LET a == ParseFloat(trkpt.lat[1], 6)
                     o == ParseFloat(trkpt.lon[1], 6)
                 IN IF a.err = NoError /\ o.err = NoError
                    THEN << <<a.val, o.val>> >> \o rest
                    ELSE rest

extract_points_from_gpx_bytes(gpx_data) ==
    IF gpx_data.empty THEN <<>>
    ELSE IF ~gpx_data.wellformed THEN <<>>
    ELSE TrkptPoints(IF gpx_data.ns # <<>> THEN gpx_data.ns ELSE gpx_data.plain)

\* ------------------------------------------------------ extract_polyline_points
\* the polyline of a geoPolylineDTO / polylineDTO value, when it is a dict
DtoPoints(value) ==
    IF value = None THEN Ok(<<>>)
    ELSE LET encoded == PyOr(value[1].polyline, value[1].encodedPolyline)
         IN IF ~Truthy(encoded) THEN Ok(<<>>)
            ELSE IF encoded.t # "str" THEN Raise("TypeError")
            ELSE decode_polyline(encoded.s)

\* the first index of metricDescriptors taken as latitude (want = "lat") or
\* longitude (want = "lon"), None when there is none; idx is 0-based
RECURSIVE MetricIndex(_, _, _)
MetricIndex(metric_desc, idx, want) ==
    IF idx >= Len(metric_desc) THEN None
    ELSE LET metric == metric_desc[idx + 1]
         IN IF metric = None THEN MetricIndex(metric_desc, idx + 1, want)
            ELSE LET key == PyOr(PyOr(metric[1].metricsIndex, metric[1].key), metric[1].displayKey)
                     unit == Lower(StrOf(metric[1].unit))
                     text == Lower(StrOf(key))
                     hit == IF want = "lat"
                            THEN \/ Contains(text, <<"l", "a", "t", "i", "t", "u", "d", "e">>) \/ text = <<"l", "a", "t">>
                                 \/ (Contains(unit, <<"d", "e", "g", "r", "e", "e">>) /\ Contains(text, <<"l", "a", "t">>))
                            ELSE \/ Contains(text, <<"l", "o", "n", "g", "i", "t", "u", "d", "e">>) \/ text = <<"l", "o", "n">>
                                 \/ text = <<"l", "n", "g">>
                                 \/ (Contains(unit, <<"d", "e", "g", "r", "e", "e">>)
                                        /\ (Contains(text, <<"l", "o", "n">>) \/ Contains(text, <<"l", "n", "g">>)))
                 IN IF hit THEN Some(idx) ELSE MetricIndex(metric_desc, idx + 1, want)

RECURSIVE MetricRows(_, _, _)
MetricRows(rows, lat_idx, lon_idx) ==
    IF rows = <<>> THEN <<>>
    ELSE LET row == Head(rows)
             rest == MetricRows(Tail(rows), lat_idx, lon_idx)
         IN IF row = None THEN rest
            ELSE IF row[1].metrics = None THEN rest
            ELSE LET metrics == row[1].metrics[1]
                 IN IF lat_idx >= Len(metrics) \/ lon_idx >= Len(metrics) THEN rest
                    ELSE LET a == PyFloat(metrics[lat_idx + 1], 6)
                             o == PyFloat(metrics[lon_idx + 1], 6)
                         IN IF a.err = NoError /\ o.err = NoError
                            THEN << <<a.val, o.val>> >> \o rest
                            ELSE rest

MetricPoints(details) ==
    IF details.metricDescriptors = None \/ details.activityDetailMetrics = None THEN <<>>
    ELSE LET lat_idx == MetricIndex(details.metricDescriptors[1], 0, "lat")
             lon_idx == MetricIndex(details.metricDescriptors[1], 0, "lon")
         IN IF lat_idx = None \/ lon_idx = None THEN <<>>
            ELSE MetricRows(details.activityDetailMetrics[1], lat_idx[1], lon_idx[1])

\* Ok(points), or the IndexError of decode_polyline
extract_polyline_points(details) ==
    IF ~details.isdict THEN Ok(<<>>)
    ELSE LET g == DtoPoints(details.geoPolylineDTO)
         IN IF g.err # NoError THEN g
            ELSE IF g.val # <<>> THEN g
            ELSE LET q == DtoPoints(details.polylineDTO)
                 IN IF q.err # NoError THEN q
                    ELSE IF q.val # <<>> THEN q
                    ELSE LET encoded == PyOr(details.polyline, details.encodedPolyline)
                             t == IF encoded.t = "str" /\ Truthy(encoded)
                                  THEN decode_polyline(encoded.s) ELSE Ok(<<>>)
                         IN IF t.err # NoError THEN t
                            ELSE IF t.val # <<>> THEN t
                            ELSE Ok(MetricPoints(details))

\* ---------------------------------------------- _fetch_filtered_activities
MsgMissingDependency == "Missing dependency: garminconnect. Install requirements and restart."
MsgMfa == "Garmin account requires MFA/challenge. This plugin currently supports non-interactive login only."
MsgAuth == "Garmin authentication failed. Check credentials."
MsgRateLimit == "Garmin API rate limit reached. Please try again later."
MsgConnection == "Garmin connection failed. Please verify network connectivity."
MsgGeneric == "Failed to fetch Garmin activities."
\* stands for the message of a RuntimeError raised inside the client library,
\* which `except RuntimeError: raise` passes on unchanged
MsgLibraryRuntimeError == "<RuntimeError of the client library>"

\* an exception of the client: its class and its message (a str)
Exc(type, msg) == [type |-> type, msg |-> msg]
\* the outcome of a request of the fetch: the exception raised, or the value
NoExc == Exc("", <<>>)
NeedsMfaResult == Exc("login_result[0] = needs_mfa", <<>>)
Failed(exc) == [err |-> "raised", exc |-> exc, val |-> <<>>]
Returned(v) == [err |-> NoError, exc |-> NoExc, val |-> v]

\* the except clauses: the message of the RuntimeError that leaves the fetch
\* with the generic handler's substring tests left out
MapFetchErrorByTypeOnly(exc) ==
    CASE exc.type = "RuntimeError" -> MsgLibraryRuntimeError
      [] exc.type = "GarminConnectAuthenticationError" -> MsgAuth
      [] exc.type = "GarminConnectTooManyRequestsError" -> MsgRateLimit
      [] OTHER -> MsgGeneric

MapFetchError(exc) ==
    CASE exc.type = "RuntimeError" -> MsgLibraryRuntimeError
      [] exc.type = "GarminConnectAuthenticationError" -> MsgAuth
      [] exc.type = "GarminConnectTooManyRequestsError" -> MsgRateLimit
      [] exc.type = "GarminConnectConnectionError" -> MsgConnection
      [] OTHER ->
            LET message == Lower(exc.msg)
            IN IF \/ Contains(message, <<"m", "f", "a">>)
                  \/ Contains(message, <<"c", "h", "a", "l", "l", "e", "n", "g", "e">>)
                  \/ Contains(message, <<"n", "e", "e", "d", "s", "_", "m", "f", "a">>)
               THEN MsgMfa
               ELSE IF \/ Contains(message, <<"4", "0", "1">>)
                       \/ Contains(message, <<"4", "0", "3">>)
                       \/ Contains(message, <<"a", "u", "t", "h", "e", "n", "t", "i", "c", "a", "t", "i", "o", "n">>)
               THEN MsgAuth
               ELSE MsgGeneric

\* isinstance(login_result, tuple) and login_result and
\* str(login_result[0]).lower() == "needs_mfa"; login_result is None (<<>>, not
\* a tuple) or <<tuple>>, the tuple a sequence of values
NeedsMfa(login_result) ==
    /\ login_result # None
    /\ login_result[1] # <<>>
    /\ Lower(StrOf(login_result[1][1])) = <<"n", "e", "e", "d", "s", "_", "m", "f", "a">>

RoadBiking == <<"r", "o", "a", "d", "_", "b", "i", "k", "i", "n", "g">>

\* (activity.get("activityType") or {}).get("typeKey"); activityType is None
\* or <<dict>>
TypeKey(activity) ==
    IF activity.activityType = None THEN PyNone ELSE activity.activityType[1].typeKey

\* float(activity.get("distance") or 0) / 1000.0, in 1e-3 km (metres are given
\* in 1e-3 m), or the TypeError / ValueError of float()
DistanceKm(activity) ==
    LET distance_m == PyOr(activity.distance, PyNum(0))
        f == PyFloat(distance_m, 3)
    IN IF f.err # NoError THEN f ELSE Ok(f.val \div 1000)

\* the loop's tests with the distance test turned into `<=`: a ride of exactly
\* the minimum distance is skipped
PassesFiltersAboveMin(activity, min_distance_km) ==
    LET c == extract_start_coordinates(activity)
        d == DistanceKm(activity)
    IN /\ TypeKey(activity) = PyStr(RoadBiking)
       /\ is_in_brussels(c[1], c[2])
       /\ d.err = NoError
       /\ ~(d.val <= min_distance_km)

\* the three `continue` tests of the loop body
PassesFilters(activity, min_distance_km) ==
    LET c == extract_start_coordinates(activity)
        d == DistanceKm(activity)
    IN /\ TypeKey(activity) = PyStr(RoadBiking)
       /\ is_in_brussels(c[1], c[2])
       /\ d.err = NoError
       /\ ~(d.val < min_distance_km)

\* int(float(duration_value)), None when absent or not a number
DurationSeconds(activity) ==
    IF activity.duration.t = "none" THEN None
    ELSE LET f == PyFloat(activity.duration, 0)
         IN IF f.err # NoError THEN None ELSE Some(f.val)

\* one request of the log: the operation, the raw activity it is for (0 for
\* none), whether it raised and how many points were extracted from its answer
Request(op, i, raised, npoints) == [op |-> op, raw |-> i, raised |-> raised, npoints |-> npoints]

\* the geometry retrieval with the details endpoint always queried
GeometryAlwaysDetails(activity, i, gpx, det) ==
    IF ~Truthy(activity.activityId) THEN [requests |-> <<>>, points |-> <<>>]
    ELSE LET from_gpx == IF gpx.err # NoError THEN <<>>
                         ELSE extract_points_from_gpx_bytes(gpx.val)
             first == Request("download_activity", i, gpx.err # NoError, Len(from_gpx))
             r == IF det.err # NoError THEN det ELSE extract_polyline_points(det.val)
             points == IF r.err # NoError THEN <<>> ELSE r.val
         IN [requests |-> <<first, Request("get_activity_details", i,
                                           r.err # NoError, Len(points))>>,
             points |-> IF from_gpx # <<>> THEN from_gpx ELSE points]

\* the geometry of surviving raw activity number i, given the outcome of
\* api.download_activity (gpx) and of api.get_activity_details (det), each an
\* [err, val]: the requests made, in order, and the points kept
Geometry(activity, i, gpx, det) ==
    IF ~Truthy(activity.activityId) THEN [requests |-> <<>>, points |-> <<>>]
    ELSE LET from_gpx == IF gpx.err # NoError THEN <<>>
                         ELSE extract_points_from_gpx_bytes(gpx.val)
             first == Request("download_activity", i, gpx.err # NoError, Len(from_gpx))
         IN IF ~(from_gpx = <<>>) THEN [requests |-> <<first>>, points |-> from_gpx]
            ELSE LET r == IF det.err # NoError THEN det ELSE extract_polyline_points(det.val)
                     points == IF r.err # NoError THEN <<>> ELSE r.val
                 IN [requests |-> <<first, Request("get_activity_details", i,
                                                   r.err # NoError, Len(points))>>,
                     points |-> points]

\* the Activity appended for raw activity number i; raw is not a field of the
\* dataclass: it records which raw activity the Activity was built from
MakeActivity(activity, i, points) ==
    [title |-> IF Truthy(activity.activityName) THEN StrOf(activity.activityName)
               ELSE <<"R", "o", "a", "d", " ", "R", "i", "d", "e", " ">> \o StrOf(activity.activityId),
     start_dt |-> parse_iso_datetime(PyOr(activity.startTimeLocal, activity.startTimeGMT)),
     distance_km |-> DistanceKm(activity).val,
     duration_seconds |-> DurationSeconds(activity),
     points |-> points,
     raw |-> i]

\* filtered.sort(key=..., reverse=True): a stable sort, descending by
\* timestamp, None as -inf: a comes strictly before b when its key is greater
KeyGreater(a, b) ==
    /\ a.start_dt # None
    /\ (b.start_dt = None \/ a.start_dt[1] > b.start_dt[1])
\* insert x after every element whose key is >= the key of x
RECURSIVE InsertDesc(_, _)
InsertDesc(sorted, x) ==
    IF sorted = <<>> THEN <<x>>
    ELSE IF KeyGreater(x, Head(sorted)) THEN <<x>> \o sorted
    ELSE <<Head(sorted)>> \o InsertDesc(Tail(sorted), x)
\* the list as the loop left it, the sort left out
SortLeftOut(list) == list

RECURSIVE SortByStartDesc(_)
SortByStartDesc(list) ==
    IF list = <<>> THEN <<>>
    ELSE InsertDesc(SortByStartDesc(SubSeq(list, 1, Len(list) - 1)), list[Len(list)])

\* ------------------------------------------------------------------- state
\* One call of a pure helper (the call harness below): call is the function and
\* its argument, ret the outcome once the call has returned.
VARIABLES call, ret, returned

callvars == <<call, ret, returned>>

\* The web application (blueprints/plugin.py) and what its handlers act on:
\*   env_file     the .env file: its lines, in order, each a key and the text
\*                after "=" (None for a line without "=")
\*   os_environ   os.environ: a dict from keys to strs
\*   playlist     the plugin instances of the playlist manager, in memory: a
\*                dict from (plugin_id, name) to settings and refresh
\*   config_file  the instances as last saved by device_config.write_config()
\*   images       the instances whose generated image exists on disk
\*   handed       what update_now last handed on: to the refresh task or to
\*                generate_image, with the plugin id and the settings
\*   response     the status of the last response (0: none yet)
\*   saves        the save_garmin_credentials requests under way, one record
\*                of the handler's locals and position per worker thread
VARIABLES env_file, os_environ, playlist, config_file, images, handed, response, saves

webvars == <<env_file, os_environ, playlist, config_file, images, handed, response, saves>>

NotHanded == [to |-> "nobody", plugin_id |-> "", settings |-> <<>>]
\* the web application is not part of the behaviour
NoWeb ==
    /\ env_file = <<>>
    /\ os_environ = <<>>
    /\ playlist = <<>>
    /\ config_file = <<>>
    /\ images = {}
    /\ handed = NotHanded
    /\ response = 0
    /\ saves = <<>>

\* ------------------------------------------------------------ generate_image
MsgLegacy == "This plugin now uses Garmin Connect directly. Re-save the plugin instance with Garmin credentials."
MsgCredentialsRequired == "Garmin credentials are required. Save email and password in plugin settings."
MsgCredentialsMissing == "Garmin credentials are missing from .env. Re-save credentials in plugin settings."
MsgNoActivities == "No matching road_biking activities found in Brussels for the last 6 months with current distance filter."
MsgRenderFailed == "Failed to render Garmin map view. Check Chromium availability and network access."

\* One run of generate_image(settings, device_config):
\*   settings, env        the plugin settings and the .env store behind
\*                        device_config.load_env_key
\*   pc                   the position of the run; err the message of the
\*                        RuntimeError that ended it ("" for none)
\*   caught               what made the login / listing fail: the exception
\*                        the except clauses caught (`exc`), or NeedsMfaResult
\*                        for a login that answered "needs_mfa"; NoExc for none
\*   min_distance_km      local of generate_image
\*   requests             the remote and render requests made so far, in order
\*   raw_activities, idx  the listing and the number of its entries the loop
\*                        of _fetch_filtered_activities has handled
\*   filtered             local of _fetch_filtered_activities
\*   activities           its return value, in generate_image
\*   template_params      the parameters handed to the template
\*   image                whether an image was returned
VARIABLES settings, env, pc, err, caught, min_distance_km, requests, raw_activities, idx,
          filtered, activities, template_params, image

runvars == <<settings, env, pc, err, caught, min_distance_km, requests, raw_activities, idx,
             filtered, activities, template_params, image>>

\* --- the inputs of a run
\* most entries of the activity listing
MaxRaw == 2

EmailKey == <<"G", "A", "R", "M", "I", "N", "_", "E", "M", "A", "I", "L", "_", "k">>
PasswordKey == <<"G", "A", "R", "M", "I", "N", "_", "P", "A", "S", "S", "W", "O", "R", "D", "_", "k">>

SettingsChoices ==
    {[gpxFiles |-> f[1], gpxFile |-> f[2], garminEmailKey |-> ek, garminPasswordKey |-> pk,
      minDistanceKm |-> md] :
        f \in {<<PyNone, PyNone>>, <<PyObj, PyNone>>, <<PyNone, PyStr(<<"a", ".", "g", "p", "x">>)>>},
        ek \in {PyNone, PyStr(EmailKey)},
        pk \in {PyNone, PyStr(<<>>), PyStr(PasswordKey)},
        md \in {PyNone, PyStr(<<"0">>), PyStr(<<"-", "1">>), PyStr(<<"x">>)}}

EnvChoices ==
    {[k \in {EmailKey, PasswordKey} |-> IF k = EmailKey THEN e ELSE w] :
        e \in {PyNone, PyStr(<<>>), PyStr(<<"m", "e", "@", "x", ".", "b", "e">>)},
        w \in {PyNone, PyStr(<<"p", "w">>)}}

\* device_config.load_env_key(key)
load_env_key(key) == IF key.s \in DOMAIN env THEN env[key.s] ELSE PyNone

\* a road ride of 25 km that starts in Brussels
BaseActivity ==
    [activityType |-> Some([typeKey |-> PyStr(RoadBiking)]),
     startLatitude |-> PyNum(50850000), startLongitude |-> PyNum(4360000),
     beginLatitude |-> PyNone, beginLongitude |-> PyNone,
     startLatitudeDegrees |-> PyNone, startLongitudeDegrees |-> PyNone,
     summaryDTO |-> None,
     distance |-> PyNum(25000000),
     activityId |-> PyNum(7),
     activityName |-> PyStr(<<"R", "i", "d", "e">>),
     startTimeLocal |-> PyIso(2), startTimeGMT |-> PyIso(3),
     duration |-> PyNum(3661)]

NoStart == [BaseActivity EXCEPT !.startLatitude = PyNone, !.startLongitude = PyNone]

\* the raw activities a listing is made of: the base ride, and rides that
\* differ from it in the fields the loop reads
RawShapes ==
    { BaseActivity,
      \* another activity type; no activityType at all
      [BaseActivity EXCEPT !.activityType = Some([typeKey |-> PyStr(<<"r", "u", "n", "n", "i", "n", "g">>)])],
      [BaseActivity EXCEPT !.activityType = None],
      \* a start south of the box; no start coordinates
      [BaseActivity EXCEPT !.startLatitude = PyNum(50700000)],
      NoStart,
      \* the start only in summaryDTO, on the south-west corner of the box; a
      \* distance of exactly 20 km; an activityId that is falsy; no start time
      [NoStart EXCEPT !.summaryDTO = Some([startLatitude |-> PyNum(50796000),
                                           startLongitude |-> PyNum(4244000)]),
                      !.distance = PyNum(20000000), !.activityId = PyNum(0),
                      !.startTimeLocal = PyNone, !.startTimeGMT = PyNone],
      \* one metre short of 20 km; the start time only as startTimeGMT
      [BaseActivity EXCEPT !.distance = PyNum(19999000), !.activityId = PyNum(9),
                           !.startTimeLocal = PyNone, !.startTimeGMT = PyIso(1)],
      \* no distance, no id, no name, a start time that does not parse
      [BaseActivity EXCEPT !.distance = PyNone, !.activityId = PyNone,
                           !.activityName = PyNone,
                           !.startTimeLocal = PyStr(<<"s", "o", "o", "n">>),
                           !.duration = PyNone],
      \* a distance that is not a number
      [BaseActivity EXCEPT !.distance = PyStr(<<"x">>)] }

RawLists == UNION {[1..k -> RawShapes] : k \in 0..MaxRaw}

\* exceptions the client raises in login() or get_activities_by_date()
FetchExceptions ==
    { Exc("GarminConnectAuthenticationError", <<"b", "a", "d", " ", "l", "o", "g", "i", "n">>),
      Exc("GarminConnectTooManyRequestsError", <<"4", "2", "9">>),
      Exc("GarminConnectConnectionError", <<"t", "i", "m", "e", "o", "u", "t">>),
      Exc("RuntimeError", <<"b", "o", "o", "m">>),
      Exc("Exception", <<"M", "F", "A", " ", "r", "e", "q", "u", "i", "r", "e", "d">>),
      Exc("Exception", <<"H", "T", "T", "P", " ", "4", "0", "1", " ", "U", "n", "a", "u", "t", "h", "o", "r", "i", "z", "e", "d">>),
      Exc("Exception", <<"s", "u", "r", "p", "r", "i", "s", "e">>) }

\* what login() returns: None, or a tuple
LoginResults ==
    { None, Some(<<>>),
      Some(<<PyStr(<<"n", "e", "e", "d", "s", "_", "m", "f", "a">>), PyObj>>),
      Some(<<PyStr(<<"N", "E", "E", "D", "S", "_", "M", "F", "A">>), PyObj>>),
      Some(<<PyObj, PyObj>>) }

Pt(lat, lon) == [lat |-> lat, lon |-> lon]
GpxDocument(ns, plain, other) ==
    [empty |-> FALSE, wellformed |-> TRUE, ns |-> ns, plain |-> plain, other |-> other]
GpxDoc(ns, plain) == GpxDocument(ns, plain, <<>>)
EmptyBytes == [empty |-> TRUE, wellformed |-> FALSE, ns |-> <<>>, plain |-> <<>>, other |-> <<>>]
NotXml == [empty |-> FALSE, wellformed |-> FALSE, ns |-> <<>>, plain |-> <<>>, other |-> <<>>]
\* what download_activity returns or raises
GpxOutcomes ==
    { Raise("GarminConnectConnectionError"),
      Ok(EmptyBytes),
      Ok(NotXml),
      Ok(GpxDoc(<<>>, <<>>)),
      Ok(GpxDocument(<<>>, <<>>, <<Pt(Some(<<"5", "0", ".", "8", "5", "0", "3">>), Some(<<"4", ".", "3", "5", "1", "7">>))>>)),
      Ok(GpxDoc(<<Pt(Some(<<"5", "0", ".", "8", "5", "0", "3">>), None)>>, <<>>)),
      Ok(GpxDoc(<<>>, <<Pt(Some(<<"5", "0", ".", "8", "5", "0", "3">>), Some(<<"4", ".", "3", "5", "1", "7">>)),
                        Pt(Some(<<"n", "o", "r", "t", "h">>), Some(<<"4", ".", "3", "5", "1", "8">>))>>)),
      Ok(GpxDoc(<<Pt(Some(<<"5", "0", ".", "8", "5", "0", "3">>), Some(<<"4", ".", "3", "5", "1", "7">>)),
                  Pt(Some(<<"5", "0", ".", "8", "5", "1", "0">>), Some(<<"4", ".", "3", "5", "2", "0">>))>>, <<>>)) }

NoDetails ==
    [isdict |-> TRUE, geoPolylineDTO |-> None, polylineDTO |-> None,
     polyline |-> PyNone, encodedPolyline |-> PyNone,
     metricDescriptors |-> None, activityDetailMetrics |-> None]
Dto(encoded) == Some([polyline |-> PyStr(encoded), encodedPolyline |-> PyNone])
Metric(key, unit) ==
    Some([metricsIndex |-> PyNum(0), key |-> PyStr(key), displayKey |-> PyNone, unit |-> PyStr(unit)])
Row(metrics) == Some([metrics |-> Some(metrics)])
\* what get_activity_details returns or raises
DetailsOutcomes ==
    { Raise("GarminConnectConnectionError"),
      Ok([NoDetails EXCEPT !.isdict = FALSE]),
      Ok(NoDetails),
      Ok([NoDetails EXCEPT !.geoPolylineDTO = Dto(KnownPolyline)]),
      \* a polyline cut in the middle of a point
      Ok([NoDetails EXCEPT !.polylineDTO = Dto(SubSeq(KnownPolyline, 1, 7))]),
      Ok([NoDetails EXCEPT
            !.metricDescriptors = Some(<<Metric(<<"d", "i", "r", "e", "c", "t", "S", "p", "e", "e", "d">>, <<"m", "p", "s">>),
                                         Metric(<<"d", "i", "r", "e", "c", "t", "L", "o", "n", "g", "i", "t", "u", "d", "e">>, <<"d", "d">>),
                                         None,
                                         Metric(<<"d", "i", "r", "e", "c", "t", "L", "a", "t", "i", "t", "u", "d", "e">>, <<"d", "d">>)>>),
            !.activityDetailMetrics =
                Some(<<Row(<<PyNum(5), PyNum(4351700), PyNone, PyNum(50850300)>>),
                       Row(<<PyNum(5), PyNone, PyNone, PyNum(50850400)>>),
                       None,
                       Row(<<PyNum(6), PyNum(4352000), PyNone, PyNum(50851000)>>)>>)]) }

\* --- the state before the run
NoTemplateParams == [map_traces |-> <<>>, activities |-> <<>>,
                     bounds |-> [south |-> 0, west |-> 0, north |-> 0, east |-> 0]]

Init ==
    /\ settings \in SettingsChoices
    /\ env \in EnvChoices
    /\ pc = "check_legacy"
    /\ err = ""
    /\ caught = NoExc
    /\ min_distance_km = 0
    /\ requests = <<>>
    /\ raw_activities = <<>>
    /\ idx = 0
    /\ filtered = <<>>
    /\ activities = <<>>
    /\ template_params = NoTemplateParams
    /\ image = FALSE
    /\ call = [fn |-> "generate_image"]
    /\ NoWeb
    /\ ret = <<>>
    /\ returned = FALSE

\* raise RuntimeError(message): the run ends
RaiseRuntimeError(message) == /\ pc' = "raised"
                              /\ err' = message
Goto(label) == /\ pc' = label
               /\ UNCHANGED err

\* if settings.get("gpxFiles[]") or settings.get("gpxFile"): raise
CheckLegacySettings ==
    /\ pc = "check_legacy"
    /\ IF Truthy(PyOr(settings.gpxFiles, settings.gpxFile))
       THEN RaiseRuntimeError(MsgLegacy)
       ELSE Goto("check_keys")
    /\ UNCHANGED <<settings, env, caught, min_distance_km, requests, raw_activities, idx, filtered,
                   activities, template_params, image, callvars, webvars>>

\* the run with the test of the two settings keys left out
CheckCredentialKeysLeftOut ==
    /\ pc = "check_keys"
    /\ Goto("load_env")
    /\ UNCHANGED <<settings, env, caught, min_distance_km, requests, raw_activities, idx, filtered,
                   activities, template_params, image, callvars, webvars>>

\* if not email_key or not password_key: raise
CheckCredentialKeys ==
    /\ pc = "check_keys"
    /\ IF ~Truthy(settings.garminEmailKey) \/ ~Truthy(settings.garminPasswordKey)
       THEN RaiseRuntimeError(MsgCredentialsRequired)
       ELSE Goto("load_env")
    /\ UNCHANGED <<settings, env, caught, min_distance_km, requests, raw_activities, idx, filtered,
                   activities, template_params, image, callvars, webvars>>

\* email, password = load_env_key(...); if not email or not password: raise
LoadCredentials ==
    /\ pc = "load_env"
    /\ LET email == load_env_key(settings.garminEmailKey)
           password == load_env_key(settings.garminPasswordKey)
       IN IF ~Truthy(email) \/ ~Truthy(password)
          THEN RaiseRuntimeError(MsgCredentialsMissing)
          ELSE Goto("parse_min_distance")
    /\ UNCHANGED <<settings, env, caught, min_distance_km, requests, raw_activities, idx, filtered,
                   activities, template_params, image, callvars, webvars>>

\* min_distance_km = self._parse_min_distance(settings.get("minDistanceKm"))
ParseMinDistance ==
    /\ pc = "parse_min_distance"
    /\ LET r == _parse_min_distance(settings.minDistanceKm)
       IN IF r.err # NoError
          THEN RaiseRuntimeError(r.err) /\ UNCHANGED min_distance_km
          ELSE Goto("import") /\ min_distance_km' = r.val
    /\ UNCHANGED <<settings, env, caught, requests, raw_activities, idx, filtered,
                   activities, template_params, image, callvars, webvars>>

\* from garminconnect import ...: the package is installed or it is not
ImportClient ==
    /\ pc = "import"
    /\ \E installed \in BOOLEAN :
        IF installed THEN Goto("login") ELSE RaiseRuntimeError(MsgMissingDependency)
    /\ UNCHANGED <<settings, env, caught, min_distance_km, requests, raw_activities, idx, filtered,
                   activities, template_params, image, callvars, webvars>>

\* api = Garmin(...); login_result = api.login(), with the except clauses
Login ==
    /\ pc = "login"
    /\ \E outcome \in {Failed(e) : e \in FetchExceptions} \cup {Returned(r) : r \in LoginResults} :
        /\ requests' = Append(requests, Request("login", 0, outcome.err # NoError, 0))
        /\ IF outcome.err # NoError
           THEN RaiseRuntimeError(MapFetchError(outcome.exc)) /\ caught' = outcome.exc
           ELSE IF NeedsMfa(outcome.val)
           THEN RaiseRuntimeError(MsgMfa) /\ caught' = NeedsMfaResult
           ELSE Goto("get_activities") /\ UNCHANGED caught
    /\ UNCHANGED <<settings, env, min_distance_km, raw_activities, idx, filtered,
                   activities, template_params, image, callvars, webvars>>

\* raw_activities = api.get_activities_by_date(...), with the except clauses;
\* the listing is a list or None (`raw_activities or []`)
GetActivities ==
    /\ pc = "get_activities"
    /\ \E outcome \in {Failed(e) : e \in FetchExceptions}
                        \cup {Returned(Some(l)) : l \in RawLists} \cup {Returned(None)} :
        /\ requests' = Append(requests, Request("get_activities_by_date", 0,
                                                outcome.err # NoError, 0))
        /\ IF outcome.err # NoError
           THEN /\ RaiseRuntimeError(MapFetchError(outcome.exc))
                /\ caught' = outcome.exc
                /\ UNCHANGED raw_activities
           ELSE /\ Goto("filter")
                /\ raw_activities' = IF outcome.val = None THEN <<>> ELSE outcome.val[1]
                /\ UNCHANGED caught
    /\ UNCHANGED <<settings, env, min_distance_km, idx, filtered,
                   activities, template_params, image, callvars, webvars>>

\* one pass of `for activity in raw_activities or []`
FilterActivity ==
    /\ pc = "filter"
    /\ idx < Len(raw_activities)
    /\ LET i == idx + 1
           activity == raw_activities[i]
       IN IF ~PassesFilters(activity, min_distance_km)
          THEN UNCHANGED <<requests, filtered>>
          ELSE \E g \in {Geometry(activity, i, gpx, det) :
                            gpx \in GpxOutcomes, det \in DetailsOutcomes} :
                   /\ requests' = requests \o g.requests
                   /\ filtered' = Append(filtered, MakeActivity(activity, i, g.points))
    /\ idx' = idx + 1
    /\ UNCHANGED <<settings, env, pc, err, caught, min_distance_km, raw_activities,
                   activities, template_params, image, callvars, webvars>>

\* filtered.sort(...); return filtered
SortAndReturn ==
    /\ pc = "filter"
    /\ idx = Len(raw_activities)
    /\ filtered' = SortByStartDesc(filtered)
    /\ activities' = SortByStartDesc(filtered)
    /\ Goto("check_activities")
    /\ UNCHANGED <<settings, env, caught, min_distance_km, requests, raw_activities, idx,
                   template_params, image, callvars, webvars>>

\* if not activities: raise
CheckActivities ==
    /\ pc = "check_activities"
    /\ IF activities = <<>> THEN RaiseRuntimeError(MsgNoActivities) ELSE Goto("build")
    /\ UNCHANGED <<settings, env, caught, min_distance_km, requests, raw_activities, idx, filtered,
                   activities, template_params, image, callvars, webvars>>

\* random_trace_color(): the random colour is abstracted to one token
random_trace_color == "#rrggbb"

\* f"{distance_km:.1f} km", the kilometres given in 1e-3 km (rounded half up)
FormatDistance(distance_km) ==
    LET tenths == (distance_km + 50) \div 100
    IN IntStr(tenths \div 10) \o <<".">> \o NatStr(tenths % 10) \o <<" ", "k", "m">>

\* _format_activity_start: "Unknown start" (None) or the formatted local time,
\* abstracted to the instant
_format_activity_start(start_dt) == start_dt

\* the traces of the activities that have any point at all
RECURSIVE MapTracesAnyPoint(_)
MapTracesAnyPoint(list) ==
    IF list = <<>> THEN <<>>
    ELSE (IF Len(Head(list).points) > 0
          THEN <<[color |-> random_trace_color, segments |-> <<Head(list).points>>]>>
          ELSE <<>>) \o MapTracesAnyPoint(Tail(list))

\* the traces of the activities that have more than one point
RECURSIVE MapTraces(_)
MapTraces(list) ==
    IF list = <<>> THEN <<>>
    ELSE (IF Len(Head(list).points) > 1
          THEN <<[color |-> random_trace_color, segments |-> <<Head(list).points>>]>>
          ELSE <<>>) \o MapTraces(Tail(list))

RenderedActivities(list) ==
    [i \in 1..Len(list) |->
        [title |-> list[i].title,
         start |-> _format_activity_start(list[i].start_dt),
         distance |-> FormatDistance(list[i].distance_km),
         duration |-> _format_duration(list[i].duration_seconds),
         color |-> random_trace_color]]

\* the points of the activities that have a trace only
RECURSIVE AllPointsOfTraces(_)
AllPointsOfTraces(list) ==
    IF list = <<>> THEN <<>>
    ELSE (IF Len(Head(list).points) > 1 THEN Head(list).points ELSE <<>>)
            \o AllPointsOfTraces(Tail(list))

\* points = [point for activity in activities for point in activity.points]
RECURSIVE AllPoints(_)
AllPoints(list) == IF list = <<>> THEN <<>> ELSE Head(list).points \o AllPoints(Tail(list))

MinOf(set) == CHOOSE x \in set : \A y \in set : x <= y
MaxOf(set) == CHOOSE x \in set : \A y \in set : x >= y

Bounds(list) ==
    LET points == AllPoints(list)
        lats == {points[i][1] : i \in 1..Len(points)}
        lons == {points[i][2] : i \in 1..Len(points)}
    IN IF points # <<>>
       THEN [south |-> MinOf(lats), west |-> MinOf(lons), north |-> MaxOf(lats), east |-> MaxOf(lons)]
       ELSE [south |-> BRUSSELS_MIN_LAT, west |-> BRUSSELS_MIN_LON,
             north |-> BRUSSELS_MAX_LAT, east |-> BRUSSELS_MAX_LON]

\* the loop over activities and the template parameters
BuildTemplateParams ==
    /\ pc = "build"
    /\ template_params' = [map_traces |-> MapTraces(activities),
                           activities |-> RenderedActivities(activities),
                           bounds |-> Bounds(activities)]
    /\ Goto("render")
    /\ UNCHANGED <<settings, env, caught, min_distance_km, requests, raw_activities, idx, filtered,
                   activities, image, callvars, webvars>>

\* image = take_screenshot_html(...); if not image: raise
Render ==
    /\ pc = "render"
    /\ \E shot \in BOOLEAN :
        /\ requests' = Append(requests, Request("take_screenshot_html", 0, FALSE, 0))
        /\ image' = shot
        /\ IF shot THEN Goto("done") ELSE RaiseRuntimeError(MsgRenderFailed)
    /\ UNCHANGED <<settings, env, caught, min_distance_km, raw_activities, idx, filtered,
                   activities, template_params, callvars, webvars>>

Next ==
    \/ CheckLegacySettings
    \/ CheckCredentialKeys
    \/ LoadCredentials
    \/ ParseMinDistance
    \/ ImportClient
    \/ Login
    \/ GetActivities
    \/ FilterActivity
    \/ SortAndReturn
    \/ CheckActivities
    \/ BuildTemplateParams
    \/ Render

vars == <<callvars, runvars, webvars>>

Spec == Init /\ [][Next]_vars

\* ------------------------------------------------------------- call harness
\* One call of a pure helper: call is the function and its argument, ret the
\* outcome once the call has returned.
\* characters of the strings handed to _parse_min_distance
DistanceChars == {"0", "1", "5", "-", ".", " ", "x"}
StrsUpTo(chars, n) == UNION {[1..k -> chars] : k \in 0..n}
MinDistanceArgs ==
    {PyNone, PyNum(0), PyNum(15500), PyNum(-1000)}
        \cup {PyStr(s) : s \in StrsUpTo(DistanceChars, MaxLen)}

DurationArgs == {None} \cup {Some(n) : n \in 0..MaxDuration}

\* coordinates around the four edges of the box, in 1e-6 degree
LatArgs == {None, Some(50795999), Some(50796000), Some(50850000), Some(50914000), Some(50914001)}
LonArgs == {None, Some(4243999), Some(4244000), Some(4360000), Some(4486000), Some(4486001)}

\* polyline points in 1e-5 degree: small and large, positive and negative
PolyLats == {0, -1, 16, 3850000}
PolyLons == {0, 1, -17, -12020000}
PointSeqs == UNION {[1..k -> PolyLats \X PolyLons] : k \in 0..MaxPts}

\* characters of the raw strings handed to decode_polyline: the 5-bit groups
\* 0 and 1 without the continuation bit ("?", "@"), 0 and 31 with it ("_", "~")
PolyChars == {"?", "@", "_", "~"}
PolyStrs == StrsUpTo(PolyChars, MaxPolyLen)
\* the known string cut after each of its characters
KnownPrefixes == {SubSeq(KnownPolyline, 1, k) : k \in 0..Len(KnownPolyline)}

\* the (lat, lon) values of candidate pair k of an activity handed to
\* extract_start_coordinates: absent, a number, zero, a numeric str, a str
\* that is no number, a list; the numbers tell the pairs apart
PairShapes(k) ==
    LET lat == PyNum(50800000 + k)
        lon == PyNum(4300000 + k)
    IN { <<PyNone, PyNone>>, <<lat, PyNone>>, <<PyNone, lon>>, <<lat, lon>>,
         <<PyNum(0), PyNum(0)>>,
         <<lat, PyStr(<<"4", ".", "3", DigitChars[k + 1]>>)>>,
         <<PyStr(<<"x">>), lon>>,
         <<lat, PyObj>> }
StartActivity(p1, p2, p3, summary) ==
    [startLatitude |-> p1[1], startLongitude |-> p1[2],
     beginLatitude |-> p2[1], beginLongitude |-> p2[2],
     startLatitudeDegrees |-> p3[1], startLongitudeDegrees |-> p3[2],
     summaryDTO |-> summary]
\* summaryDTO is a dict with pair 4, or is absent / not a dict
StartActivities ==
    {StartActivity(p1, p2, p3, summary) :
        p1 \in PairShapes(1), p2 \in PairShapes(2), p3 \in PairShapes(3),
        summary \in {None} \cup {Some([startLatitude |-> p4[1], startLongitude |-> p4[2]]) :
                                    p4 \in PairShapes(4)}}

\* the trkpt elements of the documents handed to
\* extract_points_from_gpx_bytes: the two points of the test, a point without
\* lat, one without lon, and points whose lat or lon is no number
TrkptShapes ==
    { Pt(Some(<<"5", "0", ".", "8", "5", "0", "3">>), Some(<<"4", ".", "3", "5", "1", "7">>)),
      Pt(Some(<<"5", "0", ".", "8", "5", "1", "0">>), Some(<<"4", ".", "3", "5", "2", "0">>)),
      Pt(None, Some(<<"4", ".", "3", "5", "1", "8">>)),
      Pt(Some(<<"5", "0", ".", "8", "5", "0", "4">>), None),
      Pt(Some(<<"n", "o", "r", "t", "h">>), Some(<<"4", ".", "3", "5", "1", "9">>)),
      Pt(Some(<<"5", "0", ".", "8", "5", "0", "5">>), Some(<<>>)) }
TrkptSeqs == UNION {[1..k -> TrkptShapes] : k \in 0..MaxTrkpt}
\* documents with all their track points in one namespace, documents with
\* one non-namespaced point besides, and the two buffers that are no document
GpxBuffers ==
    {GpxDocument(q, <<>>, <<>>) : q \in TrkptSeqs}
        \cup {GpxDocument(<<>>, q, <<>>) : q \in TrkptSeqs}
        \cup {GpxDocument(<<>>, <<>>, q) : q \in TrkptSeqs}
        \cup {GpxDocument(q, <<Pt(Some(<<"5", "0", ".", "8", "5", "0", "6">>),
                                   Some(<<"4", ".", "3", "5", "2", "1">>))>>, <<>>) :
                    q \in TrkptSeqs}
        \cup {EmptyBytes, NotXml}

\* --- the standard polyline encoder (the reference decode_polyline inverts)
RECURSIVE EncodeChunks(_)
EncodeChunks(zz) ==
    IF zz >= 32 THEN <<AsciiTable[(32 + (zz % 32)) + 63 - 31]>> \o EncodeChunks(zz \div 32)
    ELSE <<AsciiTable[zz + 63 - 31]>>
EncodeValue(v) == EncodeChunks(IF v < 0 THEN -(2 * v) - 1 ELSE 2 * v)
RECURSIVE EncodeFrom(_, _, _)
EncodeFrom(pts, lat, lon) ==
    IF pts = <<>> THEN <<>>
    ELSE EncodeValue(Head(pts)[1] - lat) \o EncodeValue(Head(pts)[2] - lon)
            \o EncodeFrom(Tail(pts), Head(pts)[1], Head(pts)[2])
EncodePolyline(pts) == EncodeFrom(pts, 0, 0)
\* points in 1e-5 degree as the floats lat / 1e5, in 1e-6 degree
AsFloats(pts) == [i \in 1..Len(pts) |-> <<pts[i][1] * 10, pts[i][2] * 10>>]

\* no run of generate_image is under way
NoRun ==
    /\ settings = [gpxFiles |-> PyNone, gpxFile |-> PyNone, garminEmailKey |-> PyNone,
                   garminPasswordKey |-> PyNone, minDistanceKm |-> PyNone]
    /\ env = [k \in {EmailKey, PasswordKey} |-> PyNone]
    /\ pc = "idle"
    /\ err = ""
    /\ caught = NoExc
    /\ min_distance_km = 0
    /\ requests = <<>>
    /\ raw_activities = <<>>
    /\ idx = 0
    /\ filtered = <<>>
    /\ activities = <<>>
    /\ template_params = NoTemplateParams
    /\ image = FALSE

CallInit ==
    /\ NoRun
    /\ NoWeb
    /\ ret = <<>>
    /\ returned = FALSE
    /\ \/ \E v \in MinDistanceArgs : call = [fn |-> "_parse_min_distance", arg |-> v]
       \/ \E d \in DurationArgs : call = [fn |-> "_format_duration", arg |-> d]
       \/ \E lat \in LatArgs, lon \in LonArgs :
            call = [fn |-> "is_in_brussels", arg |-> <<lat, lon>>]
       \/ \E pts \in PointSeqs :
            call = [fn |-> "decode_polyline", arg |-> EncodePolyline(pts), src |-> pts]
       \/ \E activity \in StartActivities :
            call = [fn |-> "extract_start_coordinates", arg |-> activity]
       \/ \E gpx_data \in GpxBuffers :
            call = [fn |-> "extract_points_from_gpx_bytes", arg |-> gpx_data]
       \/ \E str \in PolyStrs \cup KnownPrefixes :
            call = [fn |-> "decode_polyline", arg |-> str, src |-> <<>>]

Return(v) == /\ ret' = <<v>>
             /\ returned' = TRUE
             /\ UNCHANGED <<call, runvars, webvars>>

CallParseMinDistance ==
    /\ ~returned /\ call.fn = "_parse_min_distance"
    /\ Return(_parse_min_distance(call.arg))

CallFormatDuration ==
    /\ ~returned /\ call.fn = "_format_duration"
    /\ Return(_format_duration(call.arg))

CallIsInBrussels ==
    /\ ~returned /\ call.fn = "is_in_brussels"
    /\ Return(is_in_brussels(call.arg[1], call.arg[2]))

CallDecodePolyline ==
    /\ ~returned /\ call.fn = "decode_polyline"
    /\ Return(decode_polyline(call.arg))

CallExtractStartCoordinates ==
    /\ ~returned /\ call.fn = "extract_start_coordinates"
    /\ Return(extract_start_coordinates(call.arg))

CallExtractPointsFromGpxBytes ==
    /\ ~returned /\ call.fn = "extract_points_from_gpx_bytes"
    /\ Return(extract_points_from_gpx_bytes(call.arg))

CallNext ==
    \/ CallParseMinDistance
    \/ CallFormatDuration
    \/ CallIsInBrussels
    \/ CallDecodePolyline
    \/ CallExtractStartCoordinates
    \/ CallExtractPointsFromGpxBytes

CallSpec == CallInit /\ [][CallNext]_vars

\* ---------------------------------------------------------- the .env file
\* dict helpers: a dict is a function from its keys
DictPop(d, key) == [k \in DOMAIN d \ {key} |-> d[k]]
DictUpdate(d, other) ==
    [k \in DOMAIN d \cup DOMAIN other |-> IF k \in DOMAIN other THEN other[k] ELSE d[k]]
DictSet(d, key, value) == DictUpdate(d, [k \in {key} |-> value])

\* the keys of the model in sorted() order
KeyOrder == <<"API_KEY", "GARMIN_EMAIL_h1", "GARMIN_EMAIL_h2",
              "GARMIN_PASSWORD_h1", "GARMIN_PASSWORD_h2", "ZONE">>
KeyRank(key) == CHOOSE i \in 1..Len(KeyOrder) : KeyOrder[i] = key
\* sorted(env_map.items(), key=lambda item: item[0])
RECURSIVE SortedItems(_, _)
SortedItems(env_map, from) ==
    IF from > Len(KeyOrder) THEN <<>>
    ELSE (IF KeyOrder[from] \in DOMAIN env_map
          THEN << <<KeyOrder[from], env_map[KeyOrder[from]]>> >> ELSE <<>>)
            \o SortedItems(env_map, from + 1)

\* a character the file's encoding cannot write (a lone surrogate, "\ud83d")
Surrogate == "U+D83D"
Encodable(value) == \A i \in 1..Len(value) : value[i] # Surrogate

\* the text _write_env_file puts after "=": "" for None, the value in double
\* quotes when it holds a blank or a quote
HasQuotable(value) == \E i \in 1..Len(value) : value[i] \in {" ", "\"", "'"}
FormatValue(value) ==
    LET v == IF value = None THEN <<>> ELSE value[1]
    IN IF HasQuotable(v) THEN <<"\"">> \o v \o <<"\"">> ELSE v

\* dotenv_values on one line: the text after "=", without the double quotes
\* around it; None for a line without "="
ParseText(text) ==
    IF text = None THEN None
    ELSE LET t == text[1]
         IN IF Len(t) >= 2 /\ t[1] = "\"" /\ t[Len(t)] = "\""
            THEN Some(SubSeq(t, 2, Len(t) - 1))
            ELSE Some(t)

\* _parse_env_file and `{k: v for k, v in env_entries if k}`: the dict of the
\* file's lines, a later line of a key replacing an earlier one
RECURSIVE EnvMapOf(_)
EnvMapOf(lines) ==
    IF lines = <<>> THEN <<>>
    ELSE LET last == lines[Len(lines)]
             before == EnvMapOf(SubSeq(lines, 1, Len(lines) - 1))
         IN IF last.key = "" THEN before
            ELSE DictSet(before, last.key, ParseText(last.text))

\* the lines written for the first n entries
WrittenLines(entries, n) ==
    [i \in 1..n |-> [key |-> entries[i][1], text |-> Some(FormatValue(entries[i][2]))]]
\* the entry at which f.write raises: the first whose value cannot be encoded
\* (0: none does)
FirstUnencodable(entries) ==
    IF \A i \in 1..Len(entries) : entries[i][2] = None \/ Encodable(entries[i][2][1]) THEN 0
    ELSE CHOOSE i \in 1..Len(entries) :
            /\ ~(entries[i][2] = None \/ Encodable(entries[i][2][1]))
            /\ \A j \in 1..(i - 1) : entries[j][2] = None \/ Encodable(entries[j][2][1])

\* _write_env_file(filepath, entries) on a file that holds `lines`: what is
\* returned and what the file holds afterwards.  open(filepath, 'w') raises
\* and the file is as before, or it truncates the file and every entry is
\* written (True), or a write raises (a value that cannot be encoded, a full
\* disk) and the file keeps the entries written before it (False).
WriteEnvFileOutcomes(lines, entries) ==
    LET stop == FirstUnencodable(entries)
        most == IF stop = 0 THEN Len(entries) ELSE stop - 1
    IN {[ok |-> FALSE, lines |-> lines]}
        \cup {[ok |-> FALSE, lines |-> WrittenLines(entries, n)] : n \in 0..most}
        \cup (IF stop = 0 THEN {[ok |-> TRUE, lines |-> WrittenLines(entries, Len(entries))]}
              ELSE {})

\* ------------------------------------------------- the plugin instance handlers
Chars(word) == [i \in 1..Len(word) |-> word[i]]

\* a .env file written by the web interface, with the credentials of a@x.be
\* and two other secrets
SavedLines ==
    << [key |-> "API_KEY", text |-> Some(<<"k", "1">>)],
       [key |-> "GARMIN_EMAIL_h1", text |-> Some(<<"a", "@", "x", ".", "b", "e">>)],
       [key |-> "GARMIN_PASSWORD_h1", text |-> Some(<<"\"", "o", "l", "d", " ", "p", "w", "\"">>)],
       [key |-> "ZONE", text |-> Some(<<"U", "T", "C">>)] >>
\* os.environ after the file was loaded: the str values of its entries
EnvironOf(lines) ==
    LET m == EnvMapOf(lines)
    IN [k \in {x \in DOMAIN m : m[x] # None} |-> m[k][1]]

\* the instances of the one playlist, "Default": two of gpx_activities that
\* name the same credentials; the requests of the model are about "rides"
GpxSettings ==
    [garminEmailKey |-> "GARMIN_EMAIL_h1", garminPasswordKey |-> "GARMIN_PASSWORD_h1",
     minDistanceKm |-> "20"]
Instance(plugin_settings, refresh) == [settings |-> plugin_settings, refresh |-> refresh]
NoRefresh == [type |-> "none", value |-> ""]
InitialPlaylist ==
    [k \in {<<"gpx_activities", "rides">>, <<"gpx_activities", "rides2">>} |->
        Instance(GpxSettings, NoRefresh)]

\* device_config.get_plugin(plugin_id) finds a configuration for these
InstalledPlugins == {"gpx_activities", "clock"}

\* playlist_manager.find_plugin(plugin_id, instance_name)
find_plugin(plugin_id, instance_name) ==
    IF <<plugin_id, instance_name>> \in DOMAIN playlist
    THEN Some(playlist[<<plugin_id, instance_name>>]) ELSE None

\* the settings fields of the forms sent to update_plugin_instance and update_now
FormFields ==
    { <<>>,
      [garminEmail |-> "b@x.be", garminPassword |-> "secret"],
      [garminEmail |-> "b@x.be", garminPassword |-> "secret",
       garminEmailKey |-> "GARMIN_EMAIL_h2", garminPasswordKey |-> "GARMIN_PASSWORD_h2",
       minDistanceKm |-> "35"],
      [minDistanceKm |-> "35"] }
\* parse_form(request.form): plugin_id (None when the form has none), the
\* refresh_settings JSON (None when absent) and the other fields
Forms ==
    [plugin_id : {None, Some("gpx_activities"), Some("clock"), Some("weather")},
     refresh_settings : {None, Some([refreshType |-> "scheduled", refreshTime |-> "08:00"])},
     fields : FormFields]
\* handle_request_files(...): the dict of the uploaded files, or an exception
FileOutcomes ==
    { Raise("OSError"), Ok(<<>>), Ok([garminPassword |-> "/uploads/garminPassword.txt"]) }

\* the refresh a refresh_settings JSON gives the instance
RefreshOf(refresh_settings, old) ==
    IF refresh_settings = None THEN old
    ELSE IF refresh_settings[1].refreshType = "scheduled" /\ refresh_settings[1].refreshTime # ""
    THEN [type |-> "scheduled", value |-> refresh_settings[1].refreshTime]
    ELSE old

\* the handlers with the two pops left out
KeepGarminCredentials(plugin_id, plugin_settings) == plugin_settings

\* if plugin_id == "gpx_activities": plugin_settings.pop("garminEmail", None);
\* plugin_settings.pop("garminPassword", None)
PopGarminCredentials(plugin_id, plugin_settings) ==
    IF plugin_id = "gpx_activities"
    THEN DictPop(DictPop(plugin_settings, "garminEmail"), "garminPassword")
    ELSE plugin_settings

\* PUT /update_plugin_instance/<instance_name>
UpdatePluginInstance ==
    \E instance_name \in {"rides", "ghost"}, form_data \in Forms,
       files \in FileOutcomes, written \in BOOLEAN :
        /\ IF form_data.plugin_id = None
           THEN response' = 500 /\ UNCHANGED <<playlist, config_file>>
           ELSE LET plugin_id == form_data.plugin_id[1]
                    key == <<plugin_id, instance_name>>
                    plugin_instance == find_plugin(plugin_id, instance_name)
                IN IF plugin_instance = None
                   THEN response' = 500 /\ UNCHANGED <<playlist, config_file>>
                   ELSE LET refreshed == [playlist EXCEPT ![key].refresh =
                                            RefreshOf(form_data.refresh_settings, @)]
                        IN IF files.err # NoError
                           THEN /\ playlist' = refreshed
                                /\ response' = 500
                                /\ UNCHANGED config_file
                           ELSE LET plugin_settings ==
                                        PopGarminCredentials(plugin_id,
                                            DictUpdate(form_data.fields, files.val))
                                    updated == IF DOMAIN plugin_settings # {}
                                               THEN [refreshed EXCEPT ![key].settings = plugin_settings]
                                               ELSE refreshed
                                IN /\ playlist' = updated
                                   /\ IF written
                                      THEN config_file' = updated /\ response' = 200
                                      ELSE UNCHANGED config_file /\ response' = 500
        /\ UNCHANGED <<env_file, os_environ, images, handed, saves, callvars, runvars>>

\* POST /update_now
UpdateNow ==
    \E form_data \in Forms, files \in FileOutcomes, running \in BOOLEAN, done \in BOOLEAN :
        /\ IF files.err # NoError \/ form_data.plugin_id = None
           THEN response' = 500 /\ UNCHANGED handed
           ELSE LET plugin_id == form_data.plugin_id[1]
                    plugin_settings ==
                        PopGarminCredentials(plugin_id, DictUpdate(form_data.fields, files.val))
                IN IF running
                   THEN /\ handed' = [to |-> "refresh_task", plugin_id |-> plugin_id,
                                      settings |-> plugin_settings]
                        /\ response' = IF done THEN 200 ELSE 500
                   ELSE IF plugin_id \notin InstalledPlugins
                   THEN response' = 404 /\ UNCHANGED handed
                   ELSE /\ handed' = [to |-> "generate_image", plugin_id |-> plugin_id,
                                      settings |-> plugin_settings]
                        /\ response' = IF done THEN 200 ELSE 500
        /\ UNCHANGED <<env_file, os_environ, playlist, config_file, images, saves,
                       callvars, runvars>>

\* GpxActivities.cleanup(settings) with the credentials the settings name
\* removed from the .env file and from the process environment
cleanup_removing_credentials(plugin_settings) ==
    LET named == {plugin_settings[f] : f \in DOMAIN plugin_settings
                                           \cap {"garminEmailKey", "garminPasswordKey"}}
    IN [env_file |-> SelectSeq(env_file, LAMBDA line : line.key \notin named),
        os_environ |-> [k \in DOMAIN os_environ \ named |-> os_environ[k]]]

\* GpxActivities.cleanup(settings): `return`; what it leaves of the .env file
\* and of the process environment
cleanup(plugin_settings) == [env_file |-> env_file, os_environ |-> os_environ]

\* POST /delete_plugin_instance, with _delete_plugin_instance_images
DeletePluginInstance ==
    \E playlist_name \in {"Default", "Holidays"}, plugin_id \in {"gpx_activities", "clock"},
       plugin_instance \in {"rides", "ghost"}, removed \in BOOLEAN, written \in BOOLEAN :
        /\ LET key == <<plugin_id, plugin_instance>>
               plugin_instance_obj == find_plugin(plugin_id, plugin_instance)
           IN IF playlist_name # "Default" \/ plugin_instance_obj = None
              THEN /\ response' = 400
                   /\ UNCHANGED <<env_file, os_environ, playlist, config_file, images>>
              ELSE LET kept == cleanup(plugin_instance_obj[1].settings)
                       remaining == [k \in DOMAIN playlist \ {key} |-> playlist[k]]
                   IN /\ images' = IF removed THEN images \ {key} ELSE images
                      /\ env_file' = kept.env_file
                      /\ os_environ' = kept.os_environ
                      /\ playlist' = remaining
                      /\ IF written
                         THEN config_file' = remaining /\ response' = 200
                         ELSE UNCHANGED config_file /\ response' = 500
        /\ UNCHANGED <<handed, saves, callvars, runvars>>

PluginInit ==
    /\ NoRun
    /\ call = [fn |-> "plugin blueprint"]
    /\ ret = <<>>
    /\ returned = FALSE
    /\ env_file = SavedLines
    /\ os_environ = EnvironOf(env_file)
    /\ playlist = InitialPlaylist
    /\ config_file = InitialPlaylist
    /\ images = DOMAIN InitialPlaylist
    /\ handed = NotHanded
    /\ response = 0
    /\ saves = <<>>

PluginNext ==
    \/ UpdatePluginInstance
    \/ UpdateNow
    \/ DeletePluginInstance

PluginSpec == PluginInit /\ [][PluginNext]_vars

\* ------------------------------------------------- save_garmin_credentials
\* hashlib.sha1(email.lower().encode("utf-8")).hexdigest()[:10], abstracted:
\* the addresses of the model have the prefixes h1 and h2, any other h0
Sha1Prefix(lowered) ==
    CASE lowered = <<"a", "@", "x", ".", "b", "e">> -> "h1"
      [] lowered = <<"b", "@", "x", ".", "b", "e">> -> "h2"
      [] OTHER -> "h0"

\* the JSON bodies of the requests: an e-mail address (none, one that needs
\* strip() and lower(), another one), a password (none, one with a blank, one
\* that cannot be encoded) and the keys the instance used so far
SaveRequests ==
    [email : {<<>>, <<" ", "A", "@", "x", ".", "b", "e">>, <<"b", "@", "x", ".", "b", "e">>},
     password : {<<>>, <<"n", "e", "w", " ", "p", "w">>, <<"p", Surrogate>>},
     current_keys : {[email |-> "", password |-> ""],
                     [email |-> "GARMIN_EMAIL_h1", password |-> "GARMIN_PASSWORD_h1"]}]

\* the worker threads that handle the requests
Workers == {1, 2}

\* the locals of one handler call, and where it stands: "received", "write"
\* (before _write_env_file), "environ" (before the os.environ assignments),
\* "answered"; before_file and before_environ are not locals: they record the
\* two stores as they were when the handler began
Received(data) ==
    [pc |-> "received", data |-> data, email_key |-> "", password_key |-> "",
     env_map |-> <<>>, status |-> 0, before_file |-> <<>>, before_environ |-> <<>>]

Answer(w, status) ==
    saves' = [saves EXCEPT ![w].pc = "answered", ![w].status = status]

\* the handler up to the call of _write_env_file: the checks, the keys, the
\* read of the .env file and the changes to env_map
SaveRead(w) ==
    /\ saves[w].pc = "received"
    /\ LET data == saves[w].data
           email == Strip(data.email)
           password == Strip(data.password)
           current_email_key == data.current_keys.email
           current_password_key == data.current_keys.password
           email_hash == Sha1Prefix(Lower(email))
           email_key == "GARMIN_EMAIL_" \o email_hash
           password_key == "GARMIN_PASSWORD_" \o email_hash
           read == EnvMapOf(env_file)
           with_email == DictSet(read, email_key, Some(email))
           reuse == /\ current_password_key # ""
                    /\ current_password_key \in DOMAIN with_email
                    /\ current_password_key = password_key
           env_map == IF password # <<>> THEN DictSet(with_email, password_key, Some(password))
                      ELSE with_email
           old_keys == {current_email_key, current_password_key} \ {email_key, password_key, ""}
           tidy == [k \in DOMAIN env_map \ old_keys |-> env_map[k]]
           began == [saves EXCEPT ![w].before_file = env_file,
                                  ![w].before_environ = os_environ]
       IN IF email = <<>>
          THEN saves' = [began EXCEPT ![w].pc = "answered", ![w].status = 400]
          ELSE IF password = <<>> /\ ~(current_email_key # "" /\ current_password_key # "")
          THEN saves' = [began EXCEPT ![w].pc = "answered", ![w].status = 400]
          ELSE IF password = <<>> /\ ~reuse
          THEN saves' = [began EXCEPT ![w].pc = "answered", ![w].status = 400]
          ELSE saves' = [began EXCEPT ![w].pc = "write", ![w].email_key = email_key,
                                      ![w].password_key = password_key,
                                      ![w].env_map = tidy]
    /\ UNCHANGED <<env_file, os_environ, playlist, config_file, images, handed, response,
                   callvars, runvars>>

\* _write_env_file(env_path, ordered_entries) and the answer 500 when it fails
SaveWrite(w) ==
    /\ saves[w].pc = "write"
    /\ \E outcome \in WriteEnvFileOutcomes(env_file, SortedItems(saves[w].env_map, 1)) :
        /\ env_file' = outcome.lines
        /\ IF outcome.ok THEN saves' = [saves EXCEPT ![w].pc = "environ"]
           ELSE Answer(w, 500)
    /\ UNCHANGED <<os_environ, playlist, config_file, images, handed, response,
                   callvars, runvars>>

\* os.environ[email_key] = ...; os.environ[password_key] = ...; the answer 200.
\* Assigning None (a reused password entry without "=") raises TypeError.
SaveSetEnviron(w) ==
    /\ saves[w].pc = "environ"
    /\ LET s == saves[w]
           with_email == DictSet(os_environ, s.email_key, s.env_map[s.email_key][1])
       IN IF s.env_map[s.password_key] = None
          THEN /\ os_environ' = with_email
               /\ Answer(w, 500)
          ELSE /\ os_environ' = DictSet(with_email, s.password_key, s.env_map[s.password_key][1])
               /\ Answer(w, 200)
    /\ UNCHANGED <<env_file, playlist, config_file, images, handed, response,
                   callvars, runvars>>

CredentialsInit ==
    /\ NoRun
    /\ call = [fn |-> "save_garmin_credentials"]
    /\ ret = <<>>
    /\ returned = FALSE
    /\ env_file \in {<<>>, SavedLines}
    /\ os_environ = EnvironOf(env_file)
    /\ playlist = <<>>
    /\ config_file = <<>>
    /\ images = {}
    /\ handed = NotHanded
    /\ response = 0
    /\ saves \in [Workers -> {Received(data) : data \in SaveRequests}]

CredentialsNext ==
    \E w \in Workers :
        \/ SaveRead(w)
        \/ SaveWrite(w)
        \/ SaveSetEnviron(w)

CredentialsSpec == CredentialsInit /\ [][CredentialsNext]_vars

\* ------------------------------------------------------------------- claims

\* the fetch of this run has returned its list (in `activities`)
FetchReturned ==
    \/ pc \in {"check_activities", "build", "render", "done"}
    \/ pc = "raised" /\ err \in {MsgNoActivities, MsgRenderFailed}

\* the template parameters of this run have been built
TemplateBuilt ==
    \/ pc \in {"render", "done"}
    \/ pc = "raised" /\ err = MsgRenderFailed

\* what the claims say of a raw activity, read off the raw record: its type is
\* road_biking, its start lies in the box 50.796..50.914 N, 4.244..4.486 E,
\* and its distance in metres is a number of at least 1000 * min_distance_km
\* (a distance that is absent or zero counts as 0 m; one that is not a number
\* never qualifies).  Degrees are in 1e-6, metres in 1e-3 m, km in 1e-3 km.
ClaimedMetres(activity) ==
    IF activity.distance.t = "none" THEN Some(0)
    ELSE IF activity.distance.t = "num" THEN Some(activity.distance.n)
    ELSE None
ClaimedToSurvive(activity, min_km) ==
    LET start == extract_start_coordinates(activity)
        metres == ClaimedMetres(activity)
    IN /\ activity.activityType # None
       /\ activity.activityType[1].typeKey = PyStr(RoadBiking)
       /\ start[1] # None /\ start[2] # None
       /\ 50796000 <= start[1][1] /\ start[1][1] <= 50914000
       /\ 4244000 <= start[2][1] /\ start[2][1] <= 4486000
       /\ metres # None
       /\ metres[1] >= 1000 * min_km

\* the positions of `list` whose Activity was built from raw activity i
BuiltFrom(list, i) == {j \in 1..Len(list) : list[j].raw = i}

\* C1: once the fetch has returned, the returned list holds exactly one
\* Activity for each raw activity of the listing that is a road_biking ride,
\* starts inside the Brussels box and is at least min_distance_km long (a ride
\* of exactly the threshold included), carrying that ride's distance in km,
\* and holds no Activity for any other raw activity.
C1_ExactlyTheMatchingRides ==
    FetchReturned =>
        \A i \in 1..Len(raw_activities) :
            IF ClaimedToSurvive(raw_activities[i], min_distance_km)
            THEN /\ Cardinality(BuiltFrom(activities, i)) = 1
                 /\ \A j \in BuiltFrom(activities, i) :
                        activities[j].distance_km = ClaimedMetres(raw_activities[i])[1] \div 1000
            ELSE BuiltFrom(activities, i) = {}

\* C1 witness: with the default 20 km minimum, the fetch has returned the ride
\* of exactly 20 km and has dropped the one that is a metre short
C1_Witness ==
    /\ FetchReturned
    /\ min_distance_km = 20000
    /\ Len(raw_activities) = 2
    /\ raw_activities[1].distance = PyNum(20000000)
    /\ raw_activities[2].distance = PyNum(19999000)
    /\ Len(activities) = 1
    /\ activities[1].raw = 1

\* C2: the returned list is ordered by start time, descending: of two adjacent
\* Activities that both have a start time the first starts no earlier than the
\* second, and an Activity without a start time is followed only by
\* Activities without one.
C2_SortedByStartDescending ==
    FetchReturned =>
        \A j \in 1..(Len(activities) - 1) :
            /\ (activities[j].start_dt # None /\ activities[j + 1].start_dt # None)
                    => activities[j].start_dt[1] >= activities[j + 1].start_dt[1]
            /\ activities[j].start_dt = None => activities[j + 1].start_dt = None

\* C2 witness: the listing gave a ride without a start time before a ride with
\* one, and the returned list has them the other way round
C2_Witness ==
    /\ FetchReturned
    /\ Len(activities) = 2
    /\ activities[1].raw = 2
    /\ activities[1].start_dt # None
    /\ activities[2].raw = 1
    /\ activities[2].start_dt = None

\* C3 as stated: every activity of the rendered activity list has at least
\* one point (the rendered list is built entry by entry from `activities`).
C3_NoEmptyActivityRendered ==
    TemplateBuilt =>
        \A j \in 1..Len(template_params.activities) : Len(activities[j].points) >= 1

\* C3: an Activity without points does reach the rendered activity list: the
\* list has one entry per returned Activity, in order, whatever its points.
\* What rendering never gets is a trace without geometry: map_traces has one
\* trace for each Activity with at least two points, in order, and none for
\* an Activity with fewer.
C3_OnlyTracesNeedPoints ==
    TemplateBuilt =>
        LET drawn == SelectSeq(activities, LAMBDA a : Len(a.points) >= 2)
        IN /\ Len(template_params.activities) = Len(activities)
           /\ \A j \in 1..Len(activities) :
                  template_params.activities[j].title = activities[j].title
           /\ Len(template_params.map_traces) = Len(drawn)
           /\ \A k \in 1..Len(drawn) :
                  /\ template_params.map_traces[k].segments = <<drawn[k].points>>
                  /\ Len(template_params.map_traces[k].segments[1]) >= 2

\* C3 witness: the template parameters list two activities, one without any
\* point and one with a single point, and hold no trace
C3_Witness ==
    /\ TemplateBuilt
    /\ Len(template_params.activities) = 2
    /\ \E j \in 1..2 : Len(activities[j].points) = 0
    /\ \E j \in 1..2 : Len(activities[j].points) = 1
    /\ template_params.map_traces = <<>>

\* the requests made for raw activity i, in the order they were made
RequestsFor(i) == SelectSeq(requests, LAMBDA r : r.raw = i)

\* C4: for every raw activity the loop has passed that survived the filters
\* and has an activityId, the first request is the GPX download; the details
\* endpoint is queried, once and after it, exactly when the download raised or
\* gave no point; whatever the two requests did (raise, or give no point) the
\* run goes on and the Activity is in the list, with the points of the GPX if
\* it gave any, else those of the details, else none.  Requests are made for
\* surviving activities only.
C4_GpxFirstThenDetails ==
    /\ \A k \in 1..Len(requests) :
          requests[k].raw # 0 =>
              /\ requests[k].raw <= idx
              /\ ClaimedToSurvive(raw_activities[requests[k].raw], min_distance_km)
              /\ Truthy(raw_activities[requests[k].raw].activityId)
    /\ \A i \in 1..idx :
          (ClaimedToSurvive(raw_activities[i], min_distance_km)
                /\ Truthy(raw_activities[i].activityId)) =>
              LET reqs == RequestsFor(i)
                  gpx_failed == reqs[1].raised \/ reqs[1].npoints = 0
              IN /\ Len(reqs) >= 1
                 /\ reqs[1].op = "download_activity"
                 /\ Len(reqs) = IF gpx_failed THEN 2 ELSE 1
                 /\ gpx_failed => reqs[2].op = "get_activity_details"
                 /\ pc # "raised" \/ err \in {MsgNoActivities, MsgRenderFailed}
                 /\ Cardinality(BuiltFrom(filtered, i)) = 1
                 /\ \A j \in BuiltFrom(filtered, i) :
                        Len(filtered[j].points) =
                            IF ~gpx_failed THEN reqs[1].npoints
                            ELSE IF reqs[2].raised THEN 0
                            ELSE reqs[2].npoints

\* C4 witness: the fetch has returned one Activity without points, for a ride
\* whose GPX download raised and whose details request raised too
C4_Witness ==
    /\ FetchReturned
    /\ Len(activities) = 1
    /\ activities[1].points = <<>>
    /\ Len(RequestsFor(activities[1].raw)) = 2
    /\ RequestsFor(activities[1].raw)[1].op = "download_activity"
    /\ RequestsFor(activities[1].raw)[1].raised
    /\ RequestsFor(activities[1].raw)[2].op = "get_activity_details"
    /\ RequestsFor(activities[1].raw)[2].raised

\* the login or the listing of this run has failed: an exception was caught,
\* or the login answered needs_mfa
FetchFailed == caught # NoExc

\* C5: when the login or the listing fails the run ends with a RuntimeError
\* and no list is returned; an authentication error, a rate-limit error, a
\* connection error and a login that answers needs_mfa each end with their own
\* message: the four messages differ from one another and from the generic
\* "Failed to fetch Garmin activities.".
C5_SpecificFetchErrors ==
    FetchFailed =>
        LET specific ==
                [auth |-> "Garmin authentication failed. Check credentials.",
                 rate |-> "Garmin API rate limit reached. Please try again later.",
                 conn |-> "Garmin connection failed. Please verify network connectivity.",
                 mfa |-> "Garmin account requires MFA/challenge. This plugin currently supports non-interactive login only."]
            generic == "Failed to fetch Garmin activities."
        IN /\ pc = "raised"
           /\ ~FetchReturned
           /\ activities = <<>>
           /\ requests[Len(requests)].op \in {"login", "get_activities_by_date"}
           /\ requests[Len(requests)].raised \/ caught = NeedsMfaResult
           /\ caught.type = "GarminConnectAuthenticationError" => err = specific.auth
           /\ caught.type = "GarminConnectTooManyRequestsError" => err = specific.rate
           /\ caught.type = "GarminConnectConnectionError" => err = specific.conn
           /\ caught = NeedsMfaResult => err = specific.mfa
           /\ Cardinality({specific.auth, specific.rate, specific.conn, specific.mfa,
                            generic}) = 5

\* C5 witness: the login went through and the listing hit a connection error
C5_Witness ==
    /\ pc = "raised"
    /\ Len(requests) = 2
    /\ requests[2].op = "get_activities_by_date"
    /\ caught.type = "GarminConnectConnectionError"
    /\ err = MsgConnection

\* what the claim says of the settings and the environment store of a run
LegacySettingPresent == Truthy(settings.gpxFiles) \/ Truthy(settings.gpxFile)
CredentialKeyMissing ==
    ~Truthy(settings.garminEmailKey) \/ ~Truthy(settings.garminPasswordKey)
StoredValue(key) == IF key.t = "str" /\ key.s \in DOMAIN env THEN env[key.s] ELSE PyNone
CredentialValueEmpty ==
    ~Truthy(StoredValue(settings.garminEmailKey))
        \/ ~Truthy(StoredValue(settings.garminPasswordKey))
MinDistanceInvalid ==
    LET v == settings.minDistanceKm
    IN /\ v.t # "none"
       /\ ~(v.t = "str" /\ v.s = <<>>)
       /\ (PyFloat(v, 3).err # NoError \/ PyFloat(v, 3).val < 0)
ChecksPassed ==
    ~LegacySettingPresent /\ ~CredentialKeyMissing /\ ~CredentialValueEmpty
        /\ ~MinDistanceInvalid
Requested(op) == \E k \in 1..Len(requests) : requests[k].op = op

\* C6: a run that ends with an error of the preconditions ends with the error
\* of the first condition, in the order (1) legacy gpxFile / gpxFiles[]
\* setting present, (2) a credentials key missing, (3) a credentials value
\* empty in the environment store, (4) minDistanceKm invalid, that holds, and
\* a run in which one of them holds ends so; (5) an empty list from the fetch
\* gives the no-activities error.  The five errors differ.  The login and the
\* listing are requested only when none of (1)-(4) holds, and the render only
\* when the fetch has returned at least one activity.
C6_ChecksInOrder ==
    /\ LegacySettingPresent => (pc = "check_legacy" \/ (pc = "raised" /\ err = MsgLegacy))
    /\ (~LegacySettingPresent /\ CredentialKeyMissing) =>
          (pc \in {"check_legacy", "check_keys"}
              \/ (pc = "raised" /\ err = MsgCredentialsRequired))
    /\ (~LegacySettingPresent /\ ~CredentialKeyMissing /\ CredentialValueEmpty) =>
          (pc \in {"check_legacy", "check_keys", "load_env"}
              \/ (pc = "raised" /\ err = MsgCredentialsMissing))
    /\ (~LegacySettingPresent /\ ~CredentialKeyMissing /\ ~CredentialValueEmpty
            /\ MinDistanceInvalid) =>
          (pc \in {"check_legacy", "check_keys", "load_env", "parse_min_distance"}
              \/ (pc = "raised" /\ err \in {MsgInvalidDistance, MsgNegativeDistance}))
    /\ (pc = "raised" /\ err \in {MsgLegacy, MsgCredentialsRequired, MsgCredentialsMissing,
                                  MsgInvalidDistance, MsgNegativeDistance}) => requests = <<>>
    /\ (FetchReturned /\ activities = <<>>) =>
          (pc = "check_activities" \/ (pc = "raised" /\ err = MsgNoActivities))
    /\ err = MsgNoActivities => (FetchReturned /\ activities = <<>>)
    /\ Cardinality({MsgLegacy, MsgCredentialsRequired, MsgCredentialsMissing,
                    MsgInvalidDistance, MsgNoActivities}) = 5
    /\ (Requested("login") \/ Requested("get_activities_by_date")) => ChecksPassed
    /\ Requested("take_screenshot_html") =>
          /\ FetchReturned
          /\ Len(activities) >= 1
          /\ \E k \in 1..Len(requests) :
                /\ requests[k].op = "get_activities_by_date"
                /\ ~requests[k].raised
                /\ \A m \in 1..Len(requests) :
                      requests[m].op = "take_screenshot_html" => k < m

\* C6 witness: the settings name no password key and carry a minDistanceKm
\* that is not a number; the run has ended with the error of the missing key,
\* without any request
C6_Witness ==
    /\ pc = "raised"
    /\ err = MsgCredentialsRequired
    /\ ~LegacySettingPresent
    /\ settings.garminPasswordKey = PyNone
    /\ MinDistanceInvalid
    /\ requests = <<>>

\* C7: _parse_min_distance returns the default 20.0 for None and for the empty
\* string, the parsed number for an input that parses to a non-negative
\* number, raises "... cannot be negative." for one that parses to a negative
\* number and the validation error for one that does not parse; it never
\* returns a negative value.  (Kilometres are in 1e-3 km: 20.0 is 20000.)
C7_ParseMinDistance ==
    (returned /\ call.fn = "_parse_min_distance") =>
        LET v == call.arg
            r == ret[1]
            blank == v.t = "none" \/ (v.t = "str" /\ v.s = <<>>)
            parsed == PyFloat(v, 3)
        IN /\ blank => r = Ok(20000)
           /\ (~blank /\ parsed.err = NoError /\ parsed.val >= 0) => r = Ok(parsed.val)
           /\ (~blank /\ parsed.err = NoError /\ parsed.val < 0) =>
                r.err = "Minimum distance cannot be negative."
           /\ (~blank /\ parsed.err # NoError) =>
                r.err = "Minimum distance must be a valid number in kilometers."
           /\ r.err = NoError => r.val >= 0

\* C7 witness: the call _parse_min_distance("-1") has raised the
\* "cannot be negative" error
C7_Witness ==
    /\ returned /\ call.fn = "_parse_min_distance"
    /\ call.arg = PyStr(<<"-", "1">>)
    /\ ret[1].err = MsgNegativeDistance

\* the rendering C8 describes: seconds below a minute, whole minutes below an
\* hour, hours and two-digit minutes from one hour on
ClaimedDuration(d) ==
    IF d < 60 THEN IntStr(d) \o <<"s">>
    ELSE IF d < 3600 THEN IntStr(d \div 60) \o <<"m">>
    ELSE IntStr(d \div 3600) \o <<"h", " ">> \o Pad2((d % 3600) \div 60) \o <<"m">>

\* C8: _format_duration renders a duration below 60 seconds as "<s>s", one
\* below an hour as "<m>m" and one of an hour or more as "<h>h <mm>m"; in
\* particular 59 -> "59s", 60 -> "1m", 3661 -> "1h 01m".
C8_FormatDurationAsClaimed ==
    (returned /\ call.fn = "_format_duration" /\ call.arg # None) =>
        /\ ret[1] = ClaimedDuration(call.arg[1])
        /\ call.arg[1] = 59 => ret[1] = <<"5", "9", "s">>
        /\ call.arg[1] = 60 => ret[1] = <<"1", "m">>
        /\ call.arg[1] = 3661 => ret[1] = <<"1", "h", " ", "0", "1", "m">>

\* C9: is_in_brussels(lat, lon) is true iff 50.796 <= lat <= 50.914 and
\* 4.244 <= lon <= 4.486, the four boundary values included, and false when
\* lat or lon is None.  (Degrees are in 1e-6 degree.)
C9_IsInBrussels ==
    (returned /\ call.fn = "is_in_brussels") =>
        LET lat == call.arg[1]
            lon == call.arg[2]
        IN /\ (lat = None \/ lon = None) => ret[1] = FALSE
           /\ (lat # None /\ lon # None) =>
                (ret[1] <=> /\ 50796000 <= lat[1] /\ lat[1] <= 50914000
                            /\ 4244000 <= lon[1] /\ lon[1] <= 4486000)

\* C9 witness: the south-west corner of the box has been found inside
C9_Witness ==
    /\ returned /\ call.fn = "is_in_brussels"
    /\ call.arg = <<Some(50796000), Some(4244000)>>
    /\ ret[1] = TRUE

\* C10: decode_polyline inverts the standard encoder: decoding the encoding
\* of a sequence of (lat, lon) pairs in 1e-5 degree yields the same pairs in
\* the same order, the empty string decodes to the empty list, and the known
\* string decodes to exactly 3 points, the first (38.5, -120.2).
C10_DecodeInvertsEncode ==
    (returned /\ call.fn = "decode_polyline") =>
        /\ call.arg = EncodePolyline(call.src) => ret[1] = Ok(AsFloats(call.src))
        /\ call.arg = <<>> => ret[1] = Ok(<<>>)
        /\ call.arg = KnownPolyline =>
            /\ ret[1].err = NoError
            /\ Len(ret[1].val) = 3
            /\ ret[1].val[1] = <<38500000, -120200000>>

\* C10 witness: a two-point polyline whose second point differs from the first
\* in both coordinates has been encoded, decoded and recovered
C10_Witness ==
    /\ returned /\ call.fn = "decode_polyline"
    /\ Len(call.src) = 2
    /\ call.src[1] = <<3850000, -12020000>>
    /\ call.src[2] = <<-1, 1>>
    /\ ret[1] = Ok(AsFloats(call.src))

\* a character whose 5-bit group carries the continuation bit 0x20
Continues(c) == Ord(c) - 63 >= 32
\* the numbers that are complete in a string: one per character without the
\* continuation bit
CompleteVarints(str) == Cardinality({i \in 1..Len(str) : ~Continues(str[i])})
EndsMidVarint(str) == str # <<>> /\ Continues(str[Len(str)])
EndsAfterLatitude(str) == ~EndsMidVarint(str) /\ CompleteVarints(str) % 2 = 1

\* C11: decode_polyline raises on truncated input: a non-empty string that
\* ends in the middle of a number (its last character has the continuation
\* bit) or ends after a latitude delta without a longitude delta ends the call
\* with an error (IndexError), and no point list, partial or not, is returned.
C11_TruncatedRaises ==
    (returned /\ call.fn = "decode_polyline" /\ call.arg # <<>>
        /\ (EndsMidVarint(call.arg) \/ EndsAfterLatitude(call.arg))) =>
            /\ ret[1].err = "IndexError"
            /\ ret[1].val = <<>>

\* C11 witness: the known string cut after the latitude delta of its first
\* point has raised
C11_Witness ==
    /\ returned /\ call.fn = "decode_polyline"
    /\ call.arg = SubSeq(KnownPolyline, 1, 5)
    /\ EndsAfterLatitude(call.arg)
    /\ ret[1].err = "IndexError"

\* the four candidate pairs of an activity, in the order the claim gives
ClaimedPairs(activity) ==
    << <<activity.startLatitude, activity.startLongitude>>,
       <<activity.beginLatitude, activity.beginLongitude>>,
       <<activity.startLatitudeDegrees, activity.startLongitudeDegrees>>,
       IF activity.summaryDTO = None THEN <<PyNone, PyNone>>
       ELSE <<activity.summaryDTO[1].startLatitude, activity.summaryDTO[1].startLongitude>> >>
\* present and numeric: not None, and a number or a str that reads as one
PresentAndNumeric(v) == v.t = "num" \/ (v.t = "str" /\ ParseFloat(v.s, 6).err = NoError)
FullyValid(pair) == PresentAndNumeric(pair[1]) /\ PresentAndNumeric(pair[2])

\* C12: extract_start_coordinates returns the floats of the first of the four
\* candidate pairs (startLatitude/startLongitude, beginLatitude/
\* beginLongitude, startLatitudeDegrees/startLongitudeDegrees, summaryDTO's
\* startLatitude/startLongitude) whose two values are both present and
\* numeric, both taken from that pair, and (None, None) exactly when no pair
\* is fully valid.
C12_FirstValidPairWins ==
    (returned /\ call.fn = "extract_start_coordinates") =>
        LET pairs == ClaimedPairs(call.arg)
            valid == {k \in 1..4 : FullyValid(pairs[k])}
        IN IF valid = {} THEN ret[1] = <<None, None>>
           ELSE LET k == CHOOSE m \in valid : \A n \in valid : m <= n
                IN ret[1] = <<Some(PyFloat(pairs[k][1], 6).val),
                              Some(PyFloat(pairs[k][2], 6).val)>>

\* C12 witness: the first pair has a latitude only, the second a longitude
\* that is a list, the third a latitude that is no number, and the result is
\* the pair of summaryDTO
C12_Witness ==
    /\ returned /\ call.fn = "extract_start_coordinates"
    /\ call.arg.startLatitude = PyNum(50800001) /\ call.arg.startLongitude = PyNone
    /\ call.arg.beginLatitude = PyNum(50800002) /\ call.arg.beginLongitude = PyObj
    /\ call.arg.startLatitudeDegrees = PyStr(<<"x">>)
    /\ call.arg.summaryDTO # None
    /\ ret[1] = <<Some(50800004), Some(4300004)>>

\* every point of every fetched activity, as a set of <<lat, lon>>
CollectedPoints ==
    UNION {{activities[j].points[i] : i \in 1..Len(activities[j].points)} :
                j \in 1..Len(activities)}

\* C13: the bounds handed to the template are the tight bounding box of all
\* points of all fetched activities, those of one-point activities included:
\* every point lies inside, and each of south, north, west, east is attained
\* by a point (the least and greatest latitude and longitude); they are the
\* fixed Brussels box 50.796..50.914 N, 4.244..4.486 E when no activity has a
\* point; in both cases south <= north and west <= east.
C13_TightBounds ==
    TemplateBuilt =>
        LET b == template_params.bounds
        IN /\ b.south <= b.north
           /\ b.west <= b.east
           /\ IF CollectedPoints = {}
              THEN b = [south |-> 50796000, west |-> 4244000,
                        north |-> 50914000, east |-> 4486000]
              ELSE /\ \A pt \in CollectedPoints :
                        /\ b.south <= pt[1] /\ pt[1] <= b.north
                        /\ b.west <= pt[2] /\ pt[2] <= b.east
                   /\ \E pt \in CollectedPoints : pt[1] = b.south
                   /\ \E pt \in CollectedPoints : pt[1] = b.north
                   /\ \E pt \in CollectedPoints : pt[2] = b.west
                   /\ \E pt \in CollectedPoints : pt[2] = b.east

\* C13 witness: one activity has the single point (50.8503, 4.3517), which
\* gets no trace, the other the three points of the known polyline; the
\* single point is the north-east corner of the bounds
C13_Witness ==
    /\ TemplateBuilt
    /\ Len(activities) = 2
    /\ \E j \in 1..2 : activities[j].points = << <<50850300, 4351700>> >>
    /\ \E j \in 1..2 : Len(activities[j].points) = 3
    /\ Len(template_params.map_traces) = 1
    /\ template_params.bounds.north = 50850300
    /\ template_params.bounds.east = 4351700
    /\ template_params.bounds.south = 38500000

\* a track point that carries both a lat and a lon that read as numbers
UsablePoint(trkpt) ==
    /\ trkpt.lat # None /\ trkpt.lon # None
    /\ ParseFloat(trkpt.lat[1], 6).err = NoError
    /\ ParseFloat(trkpt.lon[1], 6).err = NoError
\* the [lat, lon] pairs of the usable points of a list, in the list's order
UsablePairs(trkpts) ==
    LET kept == SelectSeq(trkpts, UsablePoint)
    IN [i \in 1..Len(kept) |-> <<ParseFloat(kept[i].lat[1], 6).val,
                                  ParseFloat(kept[i].lon[1], 6).val>>]
\* all track points of a document sit in one namespace, so that the
\* concatenation of the three lists is the document order
OneNamespace(doc) ==
    Cardinality({l \in {"ns", "plain", "other"} : doc[l] # <<>>}) <= 1
WellFormedCall ==
    /\ returned /\ call.fn = "extract_points_from_gpx_bytes"
    /\ ~call.arg.empty /\ call.arg.wellformed

\* C14 as stated: for every well-formed GPX document the result is, in
\* document order, the pairs of all its track points that carry a numeric lat
\* and lon (here for the documents whose track points share one namespace).
C14_AllTrackPointsRead ==
    (WellFormedCall /\ OneNamespace(call.arg)) =>
        ret[1] = UsablePairs(call.arg.ns \o call.arg.plain \o call.arg.other)

\* C14: for every well-formed GPX document the result is, in document order,
\* exactly the [lat, lon] pairs of those track points the function reads (the
\* trkpt elements of the GPX 1.1 namespace or, when the document has none,
\* the non-namespaced trkpt elements) that carry both a lat and a lon
\* attribute that read as numbers; a point that lacks either attribute or has
\* a non-numeric one is left out and no other point is removed or reordered.
C14_MalformedPointsSkipped ==
    WellFormedCall =>
        ret[1] = UsablePairs(IF call.arg.ns # <<>> THEN call.arg.ns ELSE call.arg.plain)

\* C14 witness: a GPX 1.1 document with the two points of the test and a
\* point without lat between them has given exactly the two points, in order
C14_Witness ==
    /\ WellFormedCall
    /\ Len(call.arg.ns) = 3
    /\ call.arg.ns[2].lat = None
    /\ ret[1] = << <<50850300, 4351700>>, <<50851000, 4352000>> >>

\* the credential keys that the settings of an instance name
CredentialKeysOf(plugin_settings) ==
    {plugin_settings[f] : f \in DOMAIN plugin_settings \cap {"garminEmailKey", "garminPasswordKey"}}

\* C15: cleanup leaves the shared secrets untouched: whatever
\* delete_plugin_instance requests (each calling GpxActivities.cleanup with
\* the settings of the instance) and other plugin-instance requests have been
\* handled, the lines of the .env file and the process environment are what
\* they were before, so the credentials an instance names can still be loaded.
C15_CleanupLeavesSecrets ==
    /\ env_file = SavedLines
    /\ os_environ = EnvironOf(SavedLines)
    /\ \A k \in DOMAIN playlist :
          \A key \in CredentialKeysOf(playlist[k].settings) \cap DOMAIN EnvironOf(SavedLines) :
              /\ key \in DOMAIN os_environ
              /\ os_environ[key] = EnvironOf(SavedLines)[key]
              /\ EnvMapOf(env_file)[key] = EnvMapOf(SavedLines)[key]

\* C15 witness: "rides" has been deleted with success; "rides2" names the
\* same credential keys, and the .env file and the process environment still
\* hold a value for each of them
C15_Witness ==
    /\ response = 200
    /\ <<"gpx_activities", "rides">> \notin DOMAIN playlist
    /\ <<"gpx_activities", "rides">> \notin images
    /\ <<"gpx_activities", "rides2">> \in DOMAIN playlist
    /\ CredentialKeysOf(playlist[<<"gpx_activities", "rides2">>].settings)
            = {"GARMIN_EMAIL_h1", "GARMIN_PASSWORD_h1"}
    /\ \A k \in {"GARMIN_EMAIL_h1", "GARMIN_PASSWORD_h1"} :
            /\ k \in DOMAIN EnvMapOf(env_file) /\ EnvMapOf(env_file)[k] # None
            /\ k \in DOMAIN os_environ /\ os_environ[k] # <<>>

PlainCredentials == {"garminEmail", "garminPassword"}

\* C16: plain Garmin credentials are never kept in the playlist
\* configuration: from stored settings without garminEmail and garminPassword,
\* after any sequence of requests the settings of every gpx_activities
\* instance, in memory and as saved, hold neither key, and neither do the
\* settings update_now hands to the refresh task or to generate_image for
\* gpx_activities.
C16_NoPlainCredentialsKept ==
    /\ \A k \in DOMAIN playlist :
          k[1] = "gpx_activities" => DOMAIN playlist[k].settings \cap PlainCredentials = {}
    /\ \A k \in DOMAIN config_file :
          k[1] = "gpx_activities" => DOMAIN config_file[k].settings \cap PlainCredentials = {}
    /\ handed.plugin_id = "gpx_activities" => DOMAIN handed.settings \cap PlainCredentials = {}

\* C16 witness: a form with garminEmail, garminPassword and the keys of
\* b@x.be has updated "rides" (the only form that names these keys carries
\* the plain credentials too), and update_now has handed the same fields to
\* generate_image
C16_Witness ==
    /\ <<"gpx_activities", "rides">> \in DOMAIN config_file
    /\ config_file[<<"gpx_activities", "rides">>].settings
            = [garminEmailKey |-> "GARMIN_EMAIL_h2", garminPasswordKey |-> "GARMIN_PASSWORD_h2",
               minDistanceKm |-> "35"]
    /\ handed.to = "generate_image"
    /\ handed.plugin_id = "gpx_activities"
    /\ handed.settings = [garminEmailKey |-> "GARMIN_EMAIL_h2",
                           garminPasswordKey |-> "GARMIN_PASSWORD_h2", minDistanceKm |-> "35"]

\* ---- C17, C18: save_garmin_credentials
Answered(w) == saves[w].pc = "answered"

\* the handler of w is the only one that has run so far
RanAlone(w) == \A v \in Workers \ {w} : saves[v].pc = "received"

\* the .env file and the process environment both map key to value
StoredInBoth(key, value) ==
    /\ key \in DOMAIN EnvMapOf(env_file)
    /\ EnvMapOf(env_file)[key] = Some(value)
    /\ key \in DOMAIN os_environ
    /\ os_environ[key] = value

\* the .env file and the process environment both map key to something non-empty
NonEmptyInBoth(key) ==
    /\ key \in DOMAIN EnvMapOf(env_file)
    /\ EnvMapOf(env_file)[key] \notin {None, Some(<<>>)}
    /\ key \in DOMAIN os_environ
    /\ os_environ[key] # <<>>

\* C17: a request answered with a status other than 200 leaves the .env
\* entries and the process environment exactly as they were before it, and a
\* request answered with 200 leaves both mapping the returned email_key to
\* the submitted e-mail address and the returned password_key to a non-empty
\* password.
C17_StateChangesOnlyOnSuccess ==
    \A w \in Workers :
        (Answered(w) /\ RanAlone(w)) =>
            IF saves[w].status # 200
            THEN /\ env_file = saves[w].before_file
                 /\ os_environ = saves[w].before_environ
            ELSE /\ StoredInBoth(saves[w].email_key, Strip(saves[w].data.email))
                 /\ NonEmptyInBoth(saves[w].password_key)

\* the keys a request names as the ones its instance used so far
OldKeysOf(w) == {saves[w].data.current_keys.email, saves[w].data.current_keys.password} \ {""}

NewKeysOf(w) == {saves[w].email_key, saves[w].password_key}

\* both requests were answered with 200, for two different addresses, and
\* neither names the other's entries as its old keys
BothSaved ==
    /\ \A w \in Workers : Answered(w) /\ saves[w].status = 200
    /\ saves[1].email_key # saves[2].email_key
    /\ OldKeysOf(1) \cap NewKeysOf(2) = {}
    /\ OldKeysOf(2) \cap NewKeysOf(1) = {}

\* the entries the file holds for the request of w are the ones it saved
EntriesKept(w) ==
    /\ saves[w].email_key \in DOMAIN EnvMapOf(env_file)
    /\ EnvMapOf(env_file)[saves[w].email_key] = Some(Strip(saves[w].data.email))
    /\ saves[w].password_key \in DOMAIN EnvMapOf(env_file)
    /\ EnvMapOf(env_file)[saves[w].password_key] = saves[w].env_map[saves[w].password_key]

\* C18: when two requests for two different e-mail addresses are handled
\* concurrently and both are answered with 200, the final .env holds the
\* e-mail and password entries of both, and every unrelated entry that was
\* there before and that neither request names as an old key is still there
\* with its value.
C18_NoLostUpdate ==
    BothSaved =>
        /\ \A w \in Workers : EntriesKept(w)
        /\ \A w \in Workers :
              \A k \in DOMAIN EnvMapOf(saves[w].before_file)
                        \ (OldKeysOf(1) \cup OldKeysOf(2) \cup NewKeysOf(1) \cup NewKeysOf(2)) :
                  /\ k \in DOMAIN EnvMapOf(env_file)
                  /\ EnvMapOf(env_file)[k] = EnvMapOf(saves[w].before_file)[k]

====
